---- MODULE Spec2Model ----
(***************************************************************************)
(* Model of torchreid.data.datasets.dataset.Dataset: the per-dataset       *)
(* identity / camera index (parse_data), combine_all, __add__, the split   *)
(* a constructor exposes, and VideoDataset's frame sampling.               *)
(*                                                                         *)
(* Record objects live in a heap (a sequence of record values, a           *)
(* reference is an index into it), so that aliasing and in-place updates   *)
(* of dict records are visible.  A split is a sequence of references.      *)
(***************************************************************************)
EXTENDS Integers, Sequences, FiniteSets, TLC

VARIABLES
    rep,    \* record representation of this run: "dict" or "tuple"
    heap,   \* the record objects: heap[ref] = the fields of object ref
    ds,     \* the Dataset objects "a", "b", "c" (c is the result of a + b)
            \* and "s" (the result of sum)
    last,   \* what the latest operation did (its locals, its pre-state, its
            \* outcome; ctor: it was a constructor call)
    calls,  \* the calls in flight, by caller: position and local variables
    engine, \* an ImageAMSoftmaxEngine, the batch it trains on and the loss
    runner  \* a run of run_classification: the lines it parses, its report

vars == <<rep, heap, ds, last, calls, engine, runner>>

\* ---------------------------------------------------------------- bounds

\* Total number of records handed to the constructors of one run.
MaxRecs == 3

\* How many times combine_all may run on one Dataset object.
MaxCombines == 2

\* Longest tracklet, in frames, and largest seq_len of a VideoDataset.
MaxImgs == 5
MaxSeqLen == 3

\* Number of query records of a dataset whose label map order is followed.
MaxLabelRecs == 3

\* Total number of records handed to a constructor that is given a mode.
MaxModeRecs == 2

\* Total number of records handed to the two constructors of a run that adds.
MaxAddRecs == 2
MaxFlagRecs == 2
MaxFoldIds == 2
MaxOperands == 3
MaxTargets == 2
MaxBatch == 3
MaxLines == 4

ObjIds == {0, 1, 2}
CamIds == {0, 1}
DatasetIds == {0, 1}
Reps == {"dict", "tuple"}
Names == {"a", "b", "c", "s"}
Classes == {"ImageDataset", "VideoDataset"}

\* identity ids whose hashes meet in a table of 8 slots (1 and 9), one that
\* meets no other (2) and the junk id
LabelIds == {0, 1, 2, 9}

\* the mode arguments a constructor is given: the three the code knows and
\* one it does not
Modes == {"train", "query", "gallery", "test"}

\* the policy names a VideoDataset is constructed with: the three the code
\* knows and two it does not
SampleMethods == {"random", "evenly", "all", "dense", "Evenly"}

\* Dataset._junk_pids: a class attribute, [] in the base class and overridden
\* by dataset families; here a family whose junk identity is 0.
_junk_pids == {0}

\* ---------------------------------------------------------------- helpers

Range(s) == {s[i] : i \in DOMAIN s}

EmptyMap == [d \in {} |-> 0]

\* The annotations a run draws its records from: every identity was shot by
\* one camera (identities 0 and 2 by camera 0, identity 1 by camera 1).
RecVals ==
    {r \in [obj_id : ObjIds, cam_id : CamIds, dataset_id : DatasetIds] :
        r.cam_id = r.obj_id % 2}

\* record['dataset_id'] if isinstance(record, dict) else 0
DatasetIdOf(r) == IF rep = "dict" THEN r.dataset_id ELSE 0

\* record['obj_id'] if isinstance(record, dict) else record[1]
ObjIdOf(r) == r.obj_id

\* record['cam_id'] if isinstance(record, dict) else record[2]
CamIdOf(r) == r.cam_id

\* defaultdict(set): m[k].add(v)
AddTo(m, k, v) ==
    IF k \in DOMAIN m
    THEN [m EXCEPT ![k] = @ \cup {v}]
    ELSE [x \in DOMAIN m \cup {k} |-> IF x = k THEN {v} ELSE m[x]]

\* {dataset_id: len(s) for dataset_id, s in m.items()}
Lens(m) == [d \in DOMAIN m |-> Cardinality(m[d])]

RECURSIVE ParseLoop(_, _, _, _, _)
ParseLoop(h, data, i, pids, cams) ==
    IF i > Len(data) THEN <<Lens(pids), Lens(cams)>>
    ELSE LET record == h[data[i]]
             dataset_id == DatasetIdOf(record)
         IN  ParseLoop(h, data, i + 1,
                       AddTo(pids, dataset_id, ObjIdOf(record)),
                       AddTo(cams, dataset_id, CamIdOf(record)))

\* Dataset.parse_data: (num_pids, num_cams) of a split
parse_data(h, data) == ParseLoop(h, data, 1, EmptyMap, EmptyMap)

get_num_pids(h, data) == parse_data(h, data)[1]

get_num_cams(h, data) == parse_data(h, data)[2]

\* ---------------------------------------------------------------- copies

\* copy.deepcopy(data) of a list of records.  A dict record is copied into a
\* fresh object; a tuple of immutable fields is returned as the same object.
deepcopy(h, data) ==
    IF rep = "dict"
    THEN [heap |-> h \o [i \in 1..Len(data) |-> h[data[i]]],
          data |-> [i \in 1..Len(data) |-> Len(h) + i]]
    ELSE [heap |-> h, data |-> data]

\* ---------------------------------------------------------------- combine_all

RECURSIVE GetObjIdsLoop(_, _, _, _, _)
GetObjIdsLoop(h, data, junk_obj_ids, i, obj_ids) ==
    IF i > Len(data) THEN obj_ids
    ELSE LET record == h[data[i]]
             obj_id == ObjIdOf(record)
         IN  IF obj_id \in junk_obj_ids
             THEN GetObjIdsLoop(h, data, junk_obj_ids, i + 1, obj_ids)
             ELSE GetObjIdsLoop(h, data, junk_obj_ids, i + 1,
                                AddTo(obj_ids, DatasetIdOf(record), obj_id))

\* _get_obj_ids without the junk test
GetObjIdsKeepingJunk(h, data, junk_obj_ids, obj_ids) ==
    GetObjIdsLoop(h, data, {}, 1, obj_ids)

\* Dataset._get_obj_ids
_get_obj_ids(h, data, junk_obj_ids, obj_ids) ==
    GetObjIdsLoop(h, data, junk_obj_ids, 1, obj_ids)

\* {obj_id: i for i, obj_id in enumerate(set(dataset_ids))}: the iteration
\* order of a set is not specified, so any enumeration may result.
Enumerations(S) ==
    {f \in [S -> 0..(Cardinality(S) - 1)] : \A x, y \in S : f[x] = f[y] => x = y}

\* the id2label_map values combine_all can build from new_obj_ids
Id2LabelMaps(new_obj_ids) ==
    {m \in [DOMAIN new_obj_ids -> UNION {Enumerations(new_obj_ids[d]) : d \in DOMAIN new_obj_ids}] :
        \A d \in DOMAIN new_obj_ids : m[d] \in Enumerations(new_obj_ids[d])}

\* ---- the same label map, with the set order CPython produces

\* A set of at most four small non-negative ints is a table of 8 slots
\* (no resize below five entries); an int hashes to itself; -1 marks a free
\* slot.  The slot of a key: hash & 7, then (5 i + 1 + perturb) & 7 with
\* perturb shifted right by 5 at every step, until a free slot or the key.
EmptySet == [i \in 0..7 |-> 0 - 1]

RECURSIVE SlotOf(_, _, _, _)
SlotOf(table, key, i, perturb) ==
    IF table[i] = 0 - 1 \/ table[i] = key THEN i
    ELSE SlotOf(table, key, (i * 5 + 1 + (perturb \div 32)) % 8, perturb \div 32)

\* obj_ids[dataset_id].add(obj_id)
SetAdd(table, key) == [table EXCEPT ![SlotOf(table, key, key % 8, key)] = key]

\* iteration over a set: the keys in slot order
Iterate(table) ==
    LET Used(k) == k # 0 - 1
    IN  SelectSeq([i \in 1..8 |-> table[i - 1]], Used)

\* {obj_id: i for i, obj_id in enumerate(set(dataset_ids))}; set(...) of a set
\* copies the table slot by slot
Enumerate(table) ==
    LET keys == Iterate(table)
    IN  [k \in Range(keys) |-> (CHOOSE i \in 1..Len(keys) : keys[i] = k) - 1]

\* _get_obj_ids keeping the tables: ids enter in record order
RECURSIVE GetObjIdTables(_, _, _, _, _)
GetObjIdTables(h, data, junk_obj_ids, i, obj_ids) ==
    IF i > Len(data) THEN obj_ids
    ELSE LET record == h[data[i]]
             obj_id == ObjIdOf(record)
             dataset_id == DatasetIdOf(record)
             table == IF dataset_id \in DOMAIN obj_ids THEN obj_ids[dataset_id]
                      ELSE EmptySet
         IN  IF obj_id \in junk_obj_ids
             THEN GetObjIdTables(h, data, junk_obj_ids, i + 1, obj_ids)
             ELSE GetObjIdTables(h, data, junk_obj_ids, i + 1,
                      [d \in DOMAIN obj_ids \cup {dataset_id} |->
                          IF d = dataset_id THEN SetAdd(table, obj_id)
                          ELSE obj_ids[d]])

\* lines 228-233 of combine_all: the label map of this build
Id2LabelMap(h, self) ==
    LET q == GetObjIdTables(h, self.query, _junk_pids, 1, [d \in {} |-> EmptySet])
        new_obj_ids == GetObjIdTables(h, self.gallery, _junk_pids, 1, q)
    IN  [d \in DOMAIN new_obj_ids |-> Enumerate(new_obj_ids[d])]

RECURSIVE RelabelLoop(_, _, _, _, _, _, _)
RelabelLoop(h, data, junk_obj_ids, id2label_map, num_train_ids, i, out_data) ==
    IF i > Len(data) THEN [err |-> FALSE, heap |-> h, data |-> out_data]
    ELSE LET record == h[data[i]]
             old_id == ObjIdOf(record)
             dataset_id == DatasetIdOf(record)
         IN  IF old_id \in junk_obj_ids
             THEN RelabelLoop(h, data, junk_obj_ids, id2label_map, num_train_ids,
                              i + 1, out_data)
             ELSE IF dataset_id \notin DOMAIN num_train_ids
                     \/ dataset_id \notin DOMAIN id2label_map
                     \/ old_id \notin DOMAIN id2label_map[dataset_id]
             THEN [err |-> TRUE, heap |-> h, data |-> out_data]   \* KeyError
             ELSE LET obj_id == id2label_map[dataset_id][old_id]
                                    + num_train_ids[dataset_id]
                      out_record == [record EXCEPT !.obj_id = obj_id]
                  IN  RelabelLoop(Append(h, out_record), data, junk_obj_ids,
                                  id2label_map, num_train_ids, i + 1,
                                  Append(out_data, Len(h) + 1))

\* _relabel that forgets to add num_train_ids[dataset_id]
RelabelWithoutOffset(h, data, junk_obj_ids, id2label_map, num_train_ids) ==
    RelabelLoop(h, data, junk_obj_ids, id2label_map,
                [d \in DOMAIN num_train_ids |-> 0], 1, <<>>)

\* _relabel whose offset is one short
RelabelOffsetOneShort(h, data, junk_obj_ids, id2label_map, num_train_ids) ==
    RelabelLoop(h, data, junk_obj_ids, id2label_map,
                [d \in DOMAIN num_train_ids |-> num_train_ids[d] - 1], 1, <<>>)

\* Dataset._relabel: every kept record is a new object (a deep copy of the
\* dict, or a new tuple built by concatenation)
_relabel(h, data, junk_obj_ids, id2label_map, num_train_ids) ==
    RelabelLoop(h, data, junk_obj_ids, id2label_map, num_train_ids, 1, <<>>)

\* combine_all that appends the gallery records before the query records
CombineAllGalleryFirst(h, self, id2label_map) ==
    LET combined == deepcopy(h, self.train)
        g == _relabel(combined.heap, self.gallery, _junk_pids, id2label_map,
                      self.num_train_pids)
        q == _relabel(g.heap, self.query, _junk_pids, id2label_map,
                      self.num_train_pids)
        train == combined.data \o g.data \o q.data
    IN  IF q.err \/ g.err
        THEN [err |-> TRUE, heap |-> h, self |-> self]
        ELSE [err |-> FALSE, heap |-> q.heap,
              self |-> [self EXCEPT !.train = train,
                                    !.num_train_pids = get_num_pids(q.heap, train),
                                    !.ncombine = @ + 1]]

\* combine_all that assigns the train split a failed merge got to
CombineAllKeepsPartial(h, self, id2label_map) ==
    LET combined == deepcopy(h, self.train)
        q == _relabel(combined.heap, self.query, _junk_pids, id2label_map,
                      self.num_train_pids)
        g == _relabel(q.heap, self.gallery, _junk_pids, id2label_map,
                      self.num_train_pids)
        train == combined.data \o q.data \o g.data
    IN  IF q.err \/ g.err
        THEN [err |-> TRUE, heap |-> g.heap,
              self |-> [self EXCEPT !.train = train]]
        ELSE [err |-> FALSE, heap |-> g.heap,
              self |-> [self EXCEPT !.train = train,
                                    !.num_train_pids = get_num_pids(g.heap, train),
                                    !.ncombine = @ + 1]]

\* combine_all that merges once: a later call leaves the splits as they are
CombineAllOnce(h, self, id2label_map) ==
    LET combined == deepcopy(h, self.train)
        q == _relabel(combined.heap, self.query, _junk_pids, id2label_map,
                      self.num_train_pids)
        g == _relabel(q.heap, self.gallery, _junk_pids, id2label_map,
                      self.num_train_pids)
        train == combined.data \o q.data \o g.data
    IN  IF self.ncombine >= 1
        THEN [err |-> FALSE, heap |-> h, self |-> [self EXCEPT !.ncombine = @ + 1]]
        ELSE IF q.err \/ g.err
        THEN [err |-> TRUE, heap |-> h, self |-> self]
        ELSE [err |-> FALSE, heap |-> g.heap,
              self |-> [self EXCEPT !.train = train,
                                    !.num_train_pids = get_num_pids(g.heap, train),
                                    !.ncombine = @ + 1]]

\* combine_all that does not recompute num_train_pids
CombineAllStalePids(h, self, id2label_map) ==
    LET combined == deepcopy(h, self.train)
        q == _relabel(combined.heap, self.query, _junk_pids, id2label_map,
                      self.num_train_pids)
        g == _relabel(q.heap, self.gallery, _junk_pids, id2label_map,
                      self.num_train_pids)
        train == combined.data \o q.data \o g.data
    IN  IF q.err \/ g.err
        THEN [err |-> TRUE, heap |-> h, self |-> self]
        ELSE [err |-> FALSE, heap |-> g.heap,
              self |-> [self EXCEPT !.train = train, !.ncombine = @ + 1]]

\* Dataset.combine_all on the object self, with id2label_map as built from the
\* set enumeration.  Yields the heap and the fields of self afterwards; on an
\* exception nothing was assigned.
combine_all(h, self, id2label_map) ==
    LET combined == deepcopy(h, self.train)
        q == _relabel(combined.heap, self.query, _junk_pids, id2label_map,
                      self.num_train_pids)
        g == _relabel(q.heap, self.gallery, _junk_pids, id2label_map,
                      self.num_train_pids)
        train == combined.data \o q.data \o g.data
    IN  IF q.err \/ g.err
        THEN [err |-> TRUE, heap |-> h, self |-> self]
        ELSE [err |-> FALSE, heap |-> g.heap,
              self |-> [self EXCEPT !.train = train,
                                    !.num_train_pids = get_num_pids(g.heap, train),
                                    !.ncombine = @ + 1]]

\* new_obj_ids of combine_all: the non-junk identities of query and gallery
NewObjIds(h, self) ==
    _get_obj_ids(h, self.gallery, _junk_pids,
                 _get_obj_ids(h, self.query, _junk_pids, [d \in {} |-> {}]))

\* ---------------------------------------------------------------- __add__

RECURSIVE AddLoop(_, _, _, _, _)
AddLoop(h, self, other_train, i, updated_train) ==
    IF i > Len(other_train) THEN [heap |-> h, data |-> updated_train]
    ELSE LET ref == other_train[i]
             record == h[ref]
             dataset_id == DatasetIdOf(record)
             num_train_pids == IF dataset_id \in DOMAIN self.num_train_pids
                               THEN self.num_train_pids[dataset_id] ELSE 0
             new_obj_id == ObjIdOf(record) + num_train_pids
             num_train_cams == IF dataset_id \in DOMAIN self.num_train_cams
                               THEN self.num_train_cams[dataset_id] ELSE 0
             new_cam_id == CamIdOf(record) + num_train_cams
             updated == [record EXCEPT !.obj_id = new_obj_id, !.cam_id = new_cam_id]
         IN  IF rep = "dict"
             THEN \* record['obj_id'] = ...; updated_record = record
                  AddLoop([h EXCEPT ![ref] = updated], self, other_train, i + 1,
                          Append(updated_train, ref))
             ELSE \* updated_record = tuple([...])
                  AddLoop(Append(h, updated), self, other_train, i + 1,
                          Append(updated_train, Len(h) + 1))

\* a variant that starts from an empty list instead of the copy of self.train
UpdatedTrainWithoutSelf(h, self, other) ==
    AddLoop(h, self, other.train, 1, <<>>)

\* the train split Dataset.__add__ builds (lines 78-102)
UpdatedTrain(h, self, other) ==
    LET copied == deepcopy(h, self.train)
    IN  AddLoop(copied.heap, self, other.train, 1, copied.data)

\* ---------------------------------------------------------------- VideoDataset.__getitem__

\* np.arange(start, stop, step) for a step > 0: ceil((stop - start) / step)
\* values start, start + step, ...
Arange(start, stop, step) ==
    [k \in 1..((stop - start + step - 1) \div step) |-> start + (k - 1) * step]

\* np.random.choice(np.arange(n), size=size, replace=replace): the arrays it
\* can return; none for an empty population (ValueError)
Choices(n, size, replace) ==
    {c \in [1..size -> 0..(n - 1)] :
        replace \/ \A i, j \in 1..size : (c[i] = c[j]) => (i = j)}

\* np.sort
Sort(c) == SortSeq(c, LAMBDA x, y : x < y)

\* the 'evenly' branch without the truncation of num_imgs to a multiple of
\* seq_len: the step is rounded down instead
EvenlyWithoutTruncation(num_imgs, seq_len) ==
    IF num_imgs >= seq_len
    THEN Arange(0, num_imgs, num_imgs \div seq_len)
    ELSE Arange(0, num_imgs, 1)
             \o [k \in 1..(seq_len - num_imgs) |-> 1 * (num_imgs - 1)]

\* the 'evenly' branch padding with the first index instead of the last
EvenlyPaddingWithFirst(num_imgs, seq_len) ==
    IF num_imgs >= seq_len
    THEN LET n == num_imgs - (num_imgs % seq_len)
         IN  Arange(0, n, n \div seq_len)
    ELSE Arange(0, num_imgs, 1) \o [k \in 1..(seq_len - num_imgs) |-> 0]

\* the 'evenly' branch without the padding of a short tracklet
EvenlyWithoutPadding(num_imgs, seq_len) ==
    IF num_imgs >= seq_len
    THEN LET n == num_imgs - (num_imgs % seq_len)
         IN  Arange(0, n, n \div seq_len)
    ELSE Arange(0, num_imgs, 1)

\* the 'evenly' branch, lines 438-451.  num_imgs / seq_len is a float; after
\* the truncation it is a whole number, and so are the values of the array.
Evenly(num_imgs, seq_len) ==
    IF num_imgs >= seq_len
    THEN LET n == num_imgs - (num_imgs % seq_len)
         IN  Arange(0, n, n \div seq_len)
    ELSE LET num_pads == seq_len - num_imgs
         IN  Arange(0, num_imgs, 1) \o [k \in 1..num_pads |-> 1 * (num_imgs - 1)]

\* the 'random' branch drawing with replacement whatever the tracklet length
RandomAlwaysReplacing(num_imgs, seq_len) ==
    {Sort(c) : c \in Choices(num_imgs, seq_len, TRUE)}

\* the 'random' branch, lines 428-434: the arrays it can end with
Random(num_imgs, seq_len) ==
    LET replace == ~(num_imgs >= seq_len)
    IN  {Sort(c) : c \in Choices(num_imgs, seq_len, replace)}

\* the 'all' branch cut to seq_len indices
AllUpToSeqLen(num_imgs, seq_len) ==
    Arange(0, IF num_imgs < seq_len THEN num_imgs ELSE seq_len, 1)

\* the 'all' branch, line 456
All(num_imgs, seq_len) == Arange(0, num_imgs, 1)

NoIndices == [exc |-> "none", assigned |-> FALSE, indices |-> <<>>]

\* lines 425-456: the outcomes of the branch a known sample_method selects:
\* the exception raised if any, whether the local 'indices' was assigned, its
\* value
ResolveKnown(sample_method, num_imgs, seq_len) ==
    IF sample_method = "random"
    THEN IF Random(num_imgs, seq_len) = {}
         THEN {[NoIndices EXCEPT !.exc = "ValueError", !.assigned = TRUE]}
         ELSE {[NoIndices EXCEPT !.assigned = TRUE, !.indices = i] :
                  i \in Random(num_imgs, seq_len)}
    ELSE IF sample_method = "evenly"
    THEN LET indices == Evenly(num_imgs, seq_len)
         IN  {[NoIndices EXCEPT !.assigned = TRUE, !.indices = indices,
                 !.exc = IF Len(indices) = seq_len THEN "none"
                         ELSE "AssertionError"]}
    ELSE {[NoIndices EXCEPT !.assigned = TRUE, !.indices = All(num_imgs, seq_len)]}

\* indices resolution that treats an unknown policy name as 'all'
ResolveUnknownAsAll(sample_method, num_imgs, seq_len) ==
    IF sample_method \in {"random", "evenly", "all"}
    THEN ResolveKnown(sample_method, num_imgs, seq_len)
    ELSE ResolveKnown("all", num_imgs, seq_len)

\* lines 425-461: any other name raises ValueError before 'indices' is assigned
ResolveIndices(sample_method, num_imgs, seq_len) ==
    IF sample_method \in {"random", "evenly", "all"}
    THEN ResolveKnown(sample_method, num_imgs, seq_len)
    ELSE {[NoIndices EXCEPT !.exc = "ValueError"]}

\* img_paths[int(index)]: a negative index counts from the end
InRange(img_paths, index) ==
    index < Len(img_paths) /\ index >= 0 - Len(img_paths)
PyItem(img_paths, index) ==
    IF index >= 0 THEN img_paths[index + 1] ELSE img_paths[Len(img_paths) + index + 1]

\* lines 463-473: the frames read for the resolved indices; IndexError for an
\* index outside the tracklet, RuntimeError when torch.cat gets no frame
ReadFrames(img_paths, r) ==
    IF r.exc # "none" THEN [exc |-> r.exc, returned |-> FALSE, imgs |-> <<>>]
    ELSE IF \E k \in DOMAIN r.indices : ~InRange(img_paths, r.indices[k])
    THEN [exc |-> "IndexError", returned |-> FALSE, imgs |-> <<>>]
    ELSE IF r.indices = <<>>
    THEN [exc |-> "RuntimeError", returned |-> FALSE, imgs |-> <<>>]
    ELSE [exc |-> "none", returned |-> TRUE,
          imgs |-> [k \in DOMAIN r.indices |-> PyItem(img_paths, r.indices[k])]]

\* ---------------------------------------------------------------- objects

\* cls is the class of the object; seq_len and sample_method are attributes
\* of VideoDataset objects only and read "absent" on an ImageDataset.
\* transform, combineall and verbose carry the defaults of Dataset.__init__;
\* summary is what show_summary printed, <<>> when it printed nothing
NoDataset ==
    [state |-> "none", cls |-> "none", train |-> <<>>, query |-> <<>>,
     gallery |-> <<>>, mode |-> "train", data |-> <<>>,
     seq_len |-> "absent", sample_method |-> "absent",
     num_train_pids |-> EmptyMap, num_train_cams |-> EmptyMap, ncombine |-> 0,
     transform |-> "None", combineall |-> FALSE, verbose |-> TRUE,
     summary |-> <<>>]

\* the arguments of an ImageDataset constructor call that has not run yet
NewDataset(train, query, gallery) ==
    [NoDataset EXCEPT !.state = "new", !.cls = "ImageDataset", !.train = train,
                      !.query = query, !.gallery = gallery]

\* the arguments of a VideoDataset constructor call that has not run yet,
\* with a transform and verbose=False
NewVideoDataset(train, query, gallery, seq_len, sample_method) ==
    [NewDataset(train, query, gallery) EXCEPT
        !.cls = "VideoDataset", !.seq_len = seq_len,
        !.sample_method = sample_method, !.transform = "t", !.verbose = FALSE]

\* Dataset.__init__ up to the optional combine_all (lines 42-52)
InitFields(h, self) ==
    [self EXCEPT !.state = "ready",
                 !.num_train_pids = get_num_pids(h, self.train),
                 !.num_train_cams = get_num_cams(h, self.train)]

\* Dataset.__init__, lines 57-65: the split the mode names becomes self.data;
\* an unknown mode raises ValueError
SelectData(self) ==
    IF self.mode = "train" THEN [self EXCEPT !.data = self.train]
    ELSE IF self.mode = "query" THEN [self EXCEPT !.data = self.query]
    ELSE IF self.mode = "gallery" THEN [self EXCEPT !.data = self.gallery]
    ELSE [self EXCEPT !.state = "failed"]

\* sum(m.values())
RECURSIVE SumValues(_)
SumValues(m) ==
    IF DOMAIN m = {} THEN 0
    ELSE LET k == CHOOSE x \in DOMAIN m : TRUE
         IN  m[k] + SumValues([x \in DOMAIN m \ {k} |-> m[x]])

\* one row of the summary table as __repr__ and ImageDataset.show_summary
\* format it: identities, items and cameras of a split
SummaryRow(h, data) ==
    <<SumValues(get_num_pids(h, data)), Len(data), SumValues(get_num_cams(h, data))>>

\* Dataset.__repr__: the rows of train, query and gallery
__repr__(h, self) ==
    <<SummaryRow(h, self.train), SummaryRow(h, self.query),
      SummaryRow(h, self.gallery)>>

\* show_summary: ImageDataset prints the three rows; VideoDataset hands the
\* dicts of parse_data to '{:5d}' and raises TypeError at the first row
show_summary(h, self) ==
    IF self.cls = "VideoDataset" THEN [err |-> TRUE, out |-> <<>>]
    ELSE [err |-> FALSE, out |-> __repr__(h, self)]

\* the rest of the constructor after the optional combine_all: self.data
\* (lines 57-65), the summary when verbose (lines 67-68), and for a
\* VideoDataset the RuntimeError on a transform that is None (lines 418-419)
FinishInit(h, self) ==
    LET s == SelectData(self)
        p == show_summary(h, s)
        t == IF s.state = "failed" \/ ~s.verbose THEN s
             ELSE IF p.err THEN [s EXCEPT !.state = "failed"]
             ELSE [s EXCEPT !.summary = p.out]
    IN  IF t.state # "failed" /\ t.cls = "VideoDataset" /\ t.transform = "None"
        THEN [t EXCEPT !.state = "failed"]
        ELSE t

\* the accumulator of sum(): the int 0 it starts from, or a dataset, which is
\* one of the operands (ref names it) or a new object (ref "s")
Zero == [int |-> TRUE, ref |-> "none"]

\* the calls in flight: main runs sum(), t1 and t2 fetch items.  pc is the
\* position of the caller, the other fields are its local variables
Callers == {"main", "t1", "t2"}

Idle ==
    [pc |-> "idle", operands |-> <<>>, i |-> 0, acc |-> Zero, index |-> 0,
     img_paths |-> <<>>, num_imgs |-> 0, assigned |-> FALSE, indices |-> <<>>,
     exc |-> "none", imgs |-> <<>>]

NoCalls == [t \in Callers |-> Idle]

\* no engine: the runs of the dataset operations have none
NoEngine ==
    [state |-> "none", num_targets |-> 0, enable_metric_losses |-> FALSE,
     train_loader |-> <<>>, batch_idx |-> 0,
     batch |-> <<>>, terms |-> <<>>, num_trg_losses |-> 0, exc |-> "none"]

\* no run of run_classification
NoRunner ==
    [state |-> "none", lines |-> <<>>, exc |-> "none", saver |-> EmptyMap,
     values |-> <<>>]

NoOp ==
    [op |-> "none", ctor |-> FALSE, self |-> "a", err |-> FALSE,
     pre |-> [n \in Names |-> NoDataset], pre_heap |-> <<>>,
     id2label_map |-> EmptyMap]

\* sequences of at most n record values
Splits(n) == UNION {[1..k -> RecVals] : k \in 0..n}

\* the value of the key 'img' of a record that has no such key
NoImage == <<>>

\* the record objects as the annotation loader creates them: object i carries
\* the i-th path, a single string, and no key 'img' or 'mask_path'
Loaded(all) == [i \in 1..Len(all) |->
    [img_path |-> i, media |-> "str", obj_id |-> all[i].obj_id,
     cam_id |-> all[i].cam_id, dataset_id |-> all[i].dataset_id,
     img |-> NoImage]]

Refs(from, to) == [i \in 1..(to - from) |-> from + i]

\* a (train, query, gallery) and b (train only) before their constructors run
Init ==
    \E r \in Reps, all \in Splits(MaxRecs) :
      \E i, j, k \in 0..Len(all) :
        /\ i <= j /\ j <= k
        /\ rep = r
        /\ heap = Loaded(all)
        /\ ds = [n \in Names |->
                   IF n = "a" THEN NewDataset(Refs(0, i), Refs(i, j), Refs(j, k))
                   ELSE IF n = "b" THEN NewDataset(Refs(k, Len(all)), <<>>, <<>>)
                   ELSE NoDataset]
        /\ last = NoOp
        /\ calls = NoCalls
        /\ engine = NoEngine /\ runner = NoRunner

\* a constructor that selects self.data before it runs combine_all
ConstructSelectingFirst(x, combineall) ==
    /\ ds[x].state = "new"
    /\ LET self == SelectData(InitFields(heap, ds[x]))
       IN  IF combineall /\ self.state = "ready"
           THEN \E m \in Id2LabelMaps(NewObjIds(heap, self)) :
                  LET res == combine_all(heap, self, m)
                  IN  /\ heap' = res.heap
                      /\ ds' = [ds EXCEPT ![x] =
                                  IF res.err THEN [ds[x] EXCEPT !.state = "failed"]
                                  ELSE res.self]
                      /\ last' = [op |-> "combine_all", ctor |-> TRUE, self |-> x,
                                  err |-> res.err,
                                  pre |-> [ds EXCEPT ![x] = InitFields(heap, ds[x])],
                                  pre_heap |-> heap, id2label_map |-> m]
           ELSE /\ heap' = heap
                /\ ds' = [ds EXCEPT ![x] = self]
                /\ last' = [op |-> "init", ctor |-> TRUE, self |-> x, err |-> FALSE,
                            pre |-> ds, pre_heap |-> heap,
                            id2label_map |-> EmptyMap]
    /\ UNCHANGED <<engine, runner, rep, calls>>

\* Dataset.__init__(train, query, gallery, mode=ds[x].mode, combineall=...)
\* of object x: the index of train, the optional combine_all, then self.data
\* and the summary
Construct(x, combineall) ==
    /\ ds[x].state = "new"
    /\ LET self == [InitFields(heap, ds[x]) EXCEPT !.combineall = combineall]
       IN  IF combineall
           THEN \E m \in Id2LabelMaps(NewObjIds(heap, self)) :
                  LET res == combine_all(heap, self, m)
                  IN  /\ heap' = res.heap
                      /\ ds' = [ds EXCEPT ![x] =
                                  IF res.err THEN [ds[x] EXCEPT !.state = "failed"]
                                  ELSE FinishInit(res.heap, res.self)]
                      /\ last' = [op |-> "combine_all", ctor |-> TRUE, self |-> x,
                                  err |-> res.err,
                                  pre |-> [ds EXCEPT ![x] = self], pre_heap |-> heap,
                                  id2label_map |-> m]
           ELSE /\ heap' = heap
                /\ ds' = [ds EXCEPT ![x] = FinishInit(heap, self)]
                /\ last' = [op |-> "init", ctor |-> TRUE, self |-> x, err |-> FALSE,
                            pre |-> ds, pre_heap |-> heap,
                            id2label_map |-> EmptyMap]
    /\ UNCHANGED <<engine, runner, rep, calls>>

\* x.combine_all() called on a constructed dataset
CombineAll(x) ==
    /\ ds[x].state = "ready"
    /\ ds[x].ncombine < MaxCombines
    /\ \E m \in Id2LabelMaps(NewObjIds(heap, ds[x])) :
         LET res == combine_all(heap, ds[x], m)
         IN  /\ heap' = res.heap
             /\ ds' = [ds EXCEPT ![x] = res.self]
             /\ last' = [op |-> "combine_all", ctor |-> FALSE, self |-> x,
                         err |-> res.err, pre |-> ds, pre_heap |-> heap,
                         id2label_map |-> m]
    /\ UNCHANGED <<engine, runner, rep, calls>>

\* a constructor call at the end of __add__ that hands on the verbose flag of
\* self
AddResultInheritingVerbose(h, self, updated_train) ==
    IF Len(updated_train) = 0 THEN [err |-> "IndexError", new |-> NoDataset]
    ELSE IF h[updated_train[1]].media = "str"
    THEN [err |-> "none",
          new |-> [NewDataset(updated_train, self.query, self.gallery)
                      EXCEPT !.transform = self.transform, !.mode = self.mode,
                             !.verbose = self.verbose]]
    ELSE IF self.cls # "VideoDataset"
    THEN [err |-> "AttributeError", new |-> NoDataset]
    ELSE [err |-> "none",
          new |-> [NewVideoDataset(updated_train, self.query, self.gallery,
                                   self.seq_len, self.sample_method)
                      EXCEPT !.transform = self.transform, !.mode = self.mode,
                             !.verbose = self.verbose]]

\* the constructor call Dataset.__add__ ends with (lines 112-134): the class
\* follows the first field of updated_train[0]; "IndexError" when the list is
\* empty, "AttributeError" when self has no seq_len to pass on
AddResult(h, self, updated_train) ==
    IF Len(updated_train) = 0 THEN [err |-> "IndexError", new |-> NoDataset]
    ELSE LET first_field == h[updated_train[1]].media
         IN  IF first_field = "str"
             THEN [err |-> "none",
                   new |-> [NewDataset(updated_train, self.query, self.gallery)
                               EXCEPT !.transform = self.transform,
                                      !.mode = self.mode, !.combineall = FALSE,
                                      !.verbose = FALSE]]
             ELSE IF self.cls # "VideoDataset"
             THEN [err |-> "AttributeError", new |-> NoDataset]
             ELSE [err |-> "none",
                   new |-> [NewVideoDataset(updated_train, self.query, self.gallery,
                                            self.seq_len, self.sample_method)
                               EXCEPT !.transform = self.transform,
                                      !.mode = self.mode, !.combineall = FALSE,
                                      !.verbose = FALSE]]

\* self + other  (Dataset.__add__, then the constructor of the result with
\* combineall=False).  The loop over other.train has run when the result is
\* constructed, so the objects that existed keep its effects when that raises
\* (the objects it created are then unreachable and dropped).
__add__(h, self, other) ==
    LET u == UpdatedTrain(h, self, other)
        res == AddResult(u.heap, self, u.data)
        c == FinishInit(u.heap, InitFields(u.heap, res.new))
        err == res.err # "none" \/ c.state = "failed"
    IN  [err |-> err,
         heap |-> IF err THEN SubSeq(u.heap, 1, Len(h)) ELSE u.heap,
         new |-> c]

\* c = a + b
Add ==
    /\ ds["a"].state = "ready" /\ ds["b"].state = "ready" /\ ds["c"].state = "none"
    /\ LET res == __add__(heap, ds["a"], ds["b"])
       IN  /\ heap' = res.heap
           /\ ds' = IF res.err THEN ds ELSE [ds EXCEPT !["c"] = res.new]
           /\ last' = [op |-> "add", ctor |-> FALSE, self |-> "a",
                       err |-> res.err,
                       pre |-> ds, pre_heap |-> heap, id2label_map |-> EmptyMap]
    /\ UNCHANGED <<engine, runner, rep, calls>>

\* self.__radd__(other), self being the operand D[x]: self itself when other
\* is 0, else self.__add__(other)
__radd__(h, D, x, other) ==
    IF other.int
    THEN [err |-> FALSE, heap |-> h, ref |-> x, new |-> NoDataset]
    ELSE LET r == __add__(h, D[x], D[other.ref])
         IN  [err |-> r.err, heap |-> r.heap, ref |-> "s", new |-> r.new]

\* result + item as the builtin sum evaluates it: int.__add__ does not know
\* a dataset, so 0 + item is item.__radd__(0); a dataset result takes
\* result.__add__(item)
Plus(h, D, acc, x) ==
    IF acc.int THEN __radd__(h, D, x, acc)
    ELSE LET r == __add__(h, D[acc.ref], D[x])
         IN  [err |-> r.err, heap |-> r.heap, ref |-> "s", new |-> r.new]

\* one round of the loop of sum(operands): result = result + operands[i].
\* A new result object takes the place of the previous one, which nothing
\* refers to any more.
SumStep ==
    /\ calls["main"].pc = "sum"
    /\ calls["main"].i <= Len(calls["main"].operands)
    /\ \E f \in {calls["main"]} :
       \E x \in {f.operands[f.i]} :
       \E r \in {Plus(heap, ds, f.acc, x)} :
           /\ heap' = r.heap
           /\ ds' = IF ~r.err /\ r.ref = "s" THEN [ds EXCEPT !["s"] = r.new] ELSE ds
           /\ calls' = [calls EXCEPT !["main"] =
                          IF r.err THEN [f EXCEPT !.pc = "raised"]
                          ELSE [f EXCEPT !.i = @ + 1,
                                         !.acc = [int |-> FALSE, ref |-> r.ref]]]
           /\ last' = [op |-> "sum", ctor |-> FALSE, self |-> x, err |-> r.err,
                       pre |-> ds, pre_heap |-> heap, id2label_map |-> EmptyMap,
                       step |-> f.i, before |-> f.acc]
    /\ UNCHANGED <<rep, engine, runner>>

\* x.combine_all() with the label map of this build (the set order of
\* CPython) instead of any enumeration
CombineAllOrdered(x) ==
    /\ ds[x].state = "ready"
    /\ ds[x].ncombine < 1
    /\ LET m == Id2LabelMap(heap, ds[x])
           res == combine_all(heap, ds[x], m)
       IN  /\ heap' = res.heap
           /\ ds' = [ds EXCEPT ![x] = res.self]
           /\ last' = [op |-> "combine_all", ctor |-> FALSE, self |-> x,
                       err |-> res.err, pre |-> ds, pre_heap |-> heap,
                       id2label_map |-> m]
    /\ UNCHANGED <<engine, runner, rep, calls>>

\* x[index] of a VideoDataset x (index counted from 1 here)
GetItem(x, index) ==
    /\ ds[x].state = "ready" /\ ds[x].cls = "VideoDataset"
    /\ index \in 1..Len(ds[x].data)
    /\ LET self == ds[x]
           img_paths == heap[self.data[index]].img_path
           num_imgs == Len(img_paths)
       IN  \E r \in ResolveIndices(self.sample_method, num_imgs, self.seq_len) :
             LET out == ReadFrames(img_paths, r)
             IN  last' = [op |-> "getitem", ctor |-> FALSE, self |-> x,
                          err |-> out.exc # "none",
                          pre |-> ds, pre_heap |-> heap, id2label_map |-> EmptyMap,
                          index |-> index, exc |-> out.exc, assigned |-> r.assigned,
                          indices |-> r.indices, returned |-> out.returned,
                          imgs |-> out.imgs]
    /\ UNCHANGED <<engine, runner, rep, heap, ds, calls>>

\* ---- x[index] of a VideoDataset x as three steps of a caller t, so that the
\* calls of two callers interleave

GetItemStep(t, x, step) ==
    [op |-> "getitem_step", ctor |-> FALSE, self |-> x, err |-> FALSE,
     pre |-> ds, pre_heap |-> heap, id2label_map |-> EmptyMap,
     caller |-> t, step |-> step]

\* lines 422-423: the record is read and the locals img_paths and num_imgs
\* are set
Enter(t, x, index) ==
    /\ ds[x].state = "ready" /\ ds[x].cls = "VideoDataset"
    /\ calls[t].pc = "idle"
    /\ index \in 1..Len(ds[x].data)
    /\ LET img_paths == heap[ds[x].data[index]].img_path
       IN  calls' = [calls EXCEPT ![t] =
                       [Idle EXCEPT !.pc = "entered", !.index = index,
                                    !.img_paths = img_paths,
                                    !.num_imgs = Len(img_paths)]]
    /\ last' = GetItemStep(t, x, "enter")
    /\ UNCHANGED <<engine, runner, rep, heap, ds>>

\* a resolution that cuts the stored tracklet, not only the local num_imgs,
\* to a multiple of seq_len
ResolveCuttingTracklet(t, x) ==
    /\ calls[t].pc = "entered"
    /\ \E r \in ResolveIndices(ds[x].sample_method, calls[t].num_imgs, ds[x].seq_len) :
         calls' = [calls EXCEPT ![t] =
                     [@ EXCEPT !.pc = IF r.exc = "none" THEN "resolved" ELSE "raised",
                               !.assigned = r.assigned, !.indices = r.indices,
                               !.exc = r.exc]]
    /\ heap' = [heap EXCEPT ![ds[x].data[calls[t].index]].img_path =
                   IF ds[x].sample_method = "evenly" /\ Len(@) >= ds[x].seq_len
                   THEN SubSeq(@, 1, Len(@) - (Len(@) % ds[x].seq_len))
                   ELSE @]
    /\ last' = GetItemStep(t, x, "resolve")
    /\ UNCHANGED <<engine, runner, rep, ds>>

\* lines 425-461: the indices are resolved from the local num_imgs and from
\* self.sample_method and self.seq_len; 'evenly' rebinds the local num_imgs
Resolve(t, x) ==
    /\ calls[t].pc = "entered"
    /\ \E r \in ResolveIndices(ds[x].sample_method, calls[t].num_imgs, ds[x].seq_len) :
         calls' = [calls EXCEPT ![t] =
                     [@ EXCEPT !.pc = IF r.exc = "none" THEN "resolved" ELSE "raised",
                               !.assigned = r.assigned, !.indices = r.indices,
                               !.exc = r.exc]]
    /\ last' = GetItemStep(t, x, "resolve")
    /\ UNCHANGED <<engine, runner, rep, heap, ds>>

\* lines 463-473: the frames of the local img_paths are read and returned
Fetch(t, x) ==
    /\ calls[t].pc = "resolved"
    /\ LET out == ReadFrames(calls[t].img_paths,
                             [exc |-> "none", assigned |-> TRUE,
                              indices |-> calls[t].indices])
       IN  calls' = [calls EXCEPT ![t] =
                       [@ EXCEPT !.pc = IF out.returned THEN "returned" ELSE "raised",
                                 !.exc = out.exc, !.imgs = out.imgs]]
    /\ last' = GetItemStep(t, x, "fetch")
    /\ UNCHANGED <<engine, runner, rep, heap, ds>>

\* read_image(path) followed by self.transform when there is one
ImageOf(self, path) ==
    IF self.transform = "None" THEN <<"image", path>>
    ELSE <<self.transform, <<"image", path>>>>

\* x[index] of an ImageDataset x (index counted from 1 here): a dict record
\* is returned as the stored object with the image under the key 'img', a
\* tuple record as a new tuple (image, pid, cam_id)
GetImage(x, index) ==
    /\ ds[x].state = "ready" /\ ds[x].cls = "ImageDataset"
    /\ index \in 1..Len(ds[x].data)
    /\ LET self == ds[x]
           ref == self.data[index]
           input_record == heap[ref]
           image == ImageOf(self, input_record.img_path)
       IN  /\ heap' = IF rep = "dict" THEN [heap EXCEPT ![ref].img = image]
                       ELSE heap
           /\ last' = [op |-> "getimage", ctor |-> FALSE, self |-> x,
                       err |-> FALSE, pre |-> ds, pre_heap |-> heap,
                       id2label_map |-> EmptyMap, index |-> index,
                       returned |-> IF rep = "dict" THEN <<"object", ref>>
                                    ELSE <<image, ObjIdOf(input_record),
                                           CamIdOf(input_record)>>]
    /\ UNCHANGED <<engine, runner, rep, ds, calls>>

\* repr(x) of a constructed dataset x
Repr(x) ==
    /\ ds[x].state = "ready"
    /\ last' = [op |-> "repr", ctor |-> FALSE, self |-> x, err |-> FALSE,
                pre |-> ds, pre_heap |-> heap, id2label_map |-> EmptyMap,
                msg |-> __repr__(heap, ds[x])]
    /\ UNCHANGED <<engine, runner, rep, heap, ds, calls>>

Next ==
    \/ \E combineall \in BOOLEAN : Construct("a", combineall)
    \/ \E combineall \in BOOLEAN : Construct("b", combineall)
    \/ CombineAll("a")
    \/ Add

Spec == Init /\ [][Next]_vars

\* one dataset on its own: b is built from an empty train split and never used
InitCombine ==
    /\ Init
    /\ ds["b"].train = <<>>

NextCombine ==
    \/ \E combineall \in BOOLEAN : Construct("a", combineall)
    \/ CombineAll("a")

SpecCombine == InitCombine /\ [][NextCombine]_vars

\* one dataset with its three splits, and nothing else
InitOne ==
    \E r \in Reps, all \in Splits(MaxRecs) :
      \E i, j \in 0..Len(all) :
        /\ i <= j
        /\ rep = r
        /\ heap = Loaded(all)
        /\ ds = [n \in Names |->
                   IF n = "a" THEN NewDataset(Refs(0, i), Refs(i, j), Refs(j, Len(all)))
                   ELSE NoDataset]
        /\ last = NoOp
        /\ calls = NoCalls
        /\ engine = NoEngine /\ runner = NoRunner

\* what the two constructors of a run with two datasets are given
VideoArgs ==
    [a |-> [seq_len |-> 15, sample_method |-> "evenly"],
     b |-> [seq_len |-> 8, sample_method |-> "random"]]

NewOf(cls, x, train) ==
    IF cls = "ImageDataset" THEN NewDataset(train, <<>>, <<>>)
    ELSE NewVideoDataset(train, <<>>, <<>>, VideoArgs[x].seq_len,
                         VideoArgs[x].sample_method)

\* two datasets of either class with train splits only; the records of a
\* dataset are of its class
InitTwo ==
    \E r \in Reps, ka, kb \in Classes, all \in Splits(MaxAddRecs) :
      \E k \in 0..Len(all) :
        /\ rep = r
        /\ heap = [i \in 1..Len(all) |->
                     [Loaded(all)[i] EXCEPT !.media =
                        IF (IF i <= k THEN ka ELSE kb) = "VideoDataset"
                        THEN "seq" ELSE "str"]]
        /\ ds = [n \in Names |->
                   IF n = "a" THEN NewOf(ka, "a", Refs(0, k))
                   ELSE IF n = "b" THEN NewOf(kb, "b", Refs(k, Len(all)))
                   ELSE NoDataset]
        /\ last = NoOp
        /\ calls = NoCalls
        /\ engine = NoEngine /\ runner = NoRunner

\* a run is either one dataset that is constructed and combined, or two
\* datasets that are constructed and then added
NextOneOrTwo ==
    \/ /\ ds["b"].state = "none"
       /\ NextCombine
    \/ /\ ds["b"].state # "none"
       /\ \/ Construct("a", FALSE)
          \/ Construct("b", FALSE)
          \/ Add

SpecOneOrTwo == (InitOne \/ InitTwo) /\ [][NextOneOrTwo]_vars

\* one dataset with its three splits and any mode argument
InitMode ==
    \E r \in Reps, mode \in Modes, all \in Splits(MaxModeRecs) :
      \E i, j \in 0..Len(all) :
        /\ i <= j
        /\ rep = r
        /\ heap = Loaded(all)
        /\ ds = [n \in Names |->
                   IF n = "a"
                   THEN [NewDataset(Refs(0, i), Refs(i, j), Refs(j, Len(all)))
                            EXCEPT !.mode = mode]
                   ELSE NoDataset]
        /\ last = NoOp
        /\ calls = NoCalls
        /\ engine = NoEngine /\ runner = NoRunner

NextMode == \E combineall \in BOOLEAN : Construct("a", combineall)

SpecMode == InitMode /\ [][NextMode]_vars

Transforms == {"None", "t"}

\* one image dataset with its three splits, any transform and a mode that
\* names a split
InitRead ==
    \E r \in Reps, tf \in Transforms, mode \in {"train", "query", "gallery"},
       all \in Splits(MaxModeRecs) :
      \E i, j \in 0..Len(all) :
        /\ i <= j
        /\ rep = r
        /\ heap = Loaded(all)
        /\ ds = [n \in Names |->
                   IF n = "a"
                   THEN [NewDataset(Refs(0, i), Refs(i, j), Refs(j, Len(all)))
                            EXCEPT !.mode = mode, !.transform = tf]
                   ELSE NoDataset]
        /\ last = NoOp
        /\ calls = NoCalls
        /\ engine = NoEngine /\ runner = NoRunner

\* the dataset is constructed, then items are fetched any number of times
NextRead ==
    \/ \E combineall \in BOOLEAN : Construct("a", combineall)
    \/ \E index \in DOMAIN ds["a"].data : GetImage("a", index)

SpecRead == InitRead /\ [][NextRead]_vars

\* the two record values of the runs that vary the constructor flags: the junk
\* identity and one other, both of dataset 0
FlagVals == {r \in RecVals : r.dataset_id = 0 /\ r.obj_id \in {0, 1}}

\* two datasets of one class, a with three splits and b with train only,
\* constructed with any verbose flag, a with any transform and with mode
\* 'train' or 'query'
InitFlags ==
    \E r \in Reps, cls \in Classes, va, vb \in BOOLEAN, ta \in Transforms,
       mode \in {"train", "query"},
       all \in UNION {[1..n -> FlagVals] : n \in 0..MaxFlagRecs} :
      \E i, j, k \in 0..Len(all) :
        /\ i <= j /\ j <= k
        /\ rep = r
        /\ heap = [o \in 1..Len(all) |->
                     [Loaded(all)[o] EXCEPT !.media =
                        IF cls = "VideoDataset" THEN "seq" ELSE "str"]]
        /\ ds = [n \in Names |->
                   IF n = "a"
                   THEN [NewOf(cls, "a", Refs(0, i)) EXCEPT
                            !.query = Refs(i, j), !.gallery = Refs(j, k),
                            !.verbose = va, !.transform = ta, !.mode = mode]
                   ELSE IF n = "b"
                   THEN [NewOf(cls, "b", Refs(k, Len(all))) EXCEPT !.verbose = vb]
                   ELSE NoDataset]
        /\ last = NoOp
        /\ calls = NoCalls
        /\ engine = NoEngine /\ runner = NoRunner

NextFlags ==
    \/ \E combineall \in BOOLEAN : Construct("a", combineall)
    \/ \E combineall \in BOOLEAN : Construct("b", combineall)
    \/ Add

SpecFlags == InitFlags /\ [][NextFlags]_vars

\* the records of a train split with the identity ids 0 .. n-1 of dataset d,
\* one record each
DenseRecs(n, d) == [i \in 1..n |-> [obj_id |-> i - 1, cam_id |-> 0, dataset_id |-> d]]

\* the lists sum() is given: one to MaxOperands of the datasets a, b and c,
\* in any order, a dataset possibly more than once
OperandLists == UNION {[1..k -> {"a", "b", "c"}] : k \in 1..MaxOperands}

\* three constructed image datasets whose train splits hold dense zero-based
\* identity ids of one dataset_id, and a call of sum() on some of them
InitFold ==
    \E r \in Reps, d \in DatasetIds, na, nb, nc \in 0..MaxFoldIds,
       operands \in OperandLists :
        /\ rep = r
        /\ heap = Loaded(DenseRecs(na, d) \o DenseRecs(nb, d) \o DenseRecs(nc, d))
        /\ ds = [n \in Names |->
                   IF n = "a"
                   THEN FinishInit(heap, InitFields(heap,
                            NewDataset(Refs(0, na), <<>>, <<>>)))
                   ELSE IF n = "b"
                   THEN FinishInit(heap, InitFields(heap,
                            NewDataset(Refs(na, na + nb), <<>>, <<>>)))
                   ELSE IF n = "c"
                   THEN FinishInit(heap, InitFields(heap,
                            NewDataset(Refs(na + nb, na + nb + nc), <<>>, <<>>)))
                   ELSE NoDataset]
        /\ last = NoOp
        /\ calls = [NoCalls EXCEPT !["main"] =
                      [Idle EXCEPT !.pc = "sum", !.operands = operands, !.i = 1]]
        /\ engine = NoEngine /\ runner = NoRunner

NextFold == SumStep

SpecFold == InitFold /\ [][NextFold]_vars

\* a dataset of either class is constructed with any flags, then printed
NextSummary ==
    \/ \E combineall \in BOOLEAN : Construct("a", combineall)
    \/ Repr("a")

SpecSummary == InitFlags /\ [][NextSummary]_vars

\* Classification.load_annotation: one tuple (path, label, 0, dataset_id, ...)
\* per line of the annotation file
load_annotation(labels, dataset_id) ==
    [i \in 1..Len(labels) |->
        [obj_id |-> labels[i], cam_id |-> 0, dataset_id |-> dataset_id]]

\* Classification.__init__(root, mode, dataset_id): the annotation is the
\* train split in mode 'train' and the query split in mode 'query'; the
\* other splits are empty
InitClassification ==
    \E mode \in Modes, dataset_id \in DatasetIds,
       labels \in UNION {[1..n -> ObjIds] : n \in 0..MaxModeRecs} :
        /\ rep = "tuple"
        /\ heap = Loaded(load_annotation(labels, dataset_id))
        /\ ds = [n \in Names |->
                   IF n = "a"
                   THEN [NewDataset(IF mode = "train" THEN Refs(0, Len(labels)) ELSE <<>>,
                                    IF mode = "query" THEN Refs(0, Len(labels)) ELSE <<>>,
                                    <<>>)
                            EXCEPT !.mode = mode]
                   ELSE NoDataset]
        /\ last = NoOp
        /\ calls = NoCalls
        /\ engine = NoEngine /\ runner = NoRunner

\* a classification dataset, or any image dataset, constructed and combined
SpecClassification == (InitClassification \/ InitCombine) /\ [][NextCombine]_vars

\* records of dataset 0 and camera 0 with the given identity ids
WithIds(ids) == [i \in 1..Len(ids) |-> [obj_id |-> ids[i], cam_id |-> 0, dataset_id |-> 0]]

IdSeqs(n) == UNION {[1..k -> LabelIds] : k \in 0..n}

\* two constructed datasets with equal train splits (at most one record) and
\* query splits that hold the same non-junk identities, in any order and
\* number
InitLabels ==
    \E r \in Reps, tr \in IdSeqs(1), qa, qb \in IdSeqs(MaxLabelRecs) :
        /\ Range(qa) \ _junk_pids = Range(qb) \ _junk_pids
        /\ rep = r
        /\ heap = Loaded(WithIds(tr \o tr \o qa \o qb))
        /\ ds = [n \in Names |->
                   IF n = "a"
                   THEN FinishInit(heap, InitFields(heap,
                            NewDataset(Refs(0, Len(tr)),
                                       Refs(2 * Len(tr), 2 * Len(tr) + Len(qa)), <<>>)))
                   ELSE IF n = "b"
                   THEN FinishInit(heap, InitFields(heap,
                            NewDataset(Refs(Len(tr), 2 * Len(tr)),
                                       Refs(2 * Len(tr) + Len(qa),
                                            2 * Len(tr) + Len(qa) + Len(qb)), <<>>)))
                   ELSE NoDataset]
        /\ last = NoOp
        /\ calls = NoCalls
        /\ engine = NoEngine /\ runner = NoRunner

NextLabels == CombineAllOrdered("a") \/ CombineAllOrdered("b")

SpecLabels == InitLabels /\ [][NextLabels]_vars

\* frame k (from 0) of a tracklet is the path 100 + k
FramePaths(num_imgs) == [k \in 1..num_imgs |-> 100 + (k - 1)]

\* a constructed VideoDataset whose train split is one tracklet of num_imgs
\* frames
InitSample ==
    \E num_imgs \in 0..MaxImgs, seq_len \in 1..MaxSeqLen,
       sample_method \in SampleMethods :
        /\ rep = "tuple"
        /\ heap = <<[img_path |-> FramePaths(num_imgs), media |-> "seq",
                     obj_id |-> 0, cam_id |-> 0, dataset_id |-> 0,
                     img |-> NoImage]>>
        /\ ds = [n \in Names |->
                   IF n = "a"
                   THEN FinishInit(heap, InitFields(heap,
                            NewVideoDataset(<<1>>, <<>>, <<>>, seq_len, sample_method)))
                   ELSE NoDataset]
        /\ last = NoOp
        /\ calls = NoCalls
        /\ engine = NoEngine /\ runner = NoRunner

NextSample == \E index \in DOMAIN ds["a"].data : GetItem("a", index)

SpecSample == InitSample /\ [][NextSample]_vars

\* two callers fetch items of the same dataset, each at its own pace
NextReentrant ==
    \E t \in {"t1", "t2"} :
        \/ \E index \in DOMAIN ds["a"].data : Enter(t, "a", index)
        \/ Resolve(t, "a")
        \/ Fetch(t, "a")

SpecReentrant == InitSample /\ [][NextReentrant]_vars

\* ---------------------------------------------------------------- ImageAMSoftmaxEngine

\* what datamanager.num_train_pids can be: a number, or a list of one to
\* MaxTargets numbers
NumClasses == {[list |-> FALSE, len |-> 0]} \cup
              {[list |-> TRUE, len |-> n] : n \in 1..MaxTargets}

\* ImageAMSoftmaxEngine.__init__: a num_classes that is no list or tuple
\* becomes a list of one; self.num_targets is the length of the list
NewEngine(num_classes, enable) ==
    [NoEngine EXCEPT !.state = "ready",
                     !.num_targets = IF num_classes.list THEN num_classes.len ELSE 1,
                     !.enable_metric_losses = enable]

\* the samples of a batch: identity and dataset id (data[1], data[4])
Samples == [pid : {0, 1}, trg_id : 0..MaxTargets]

Batches == UNION {[1..n -> Samples] : n \in 1..MaxBatch}

\* trg_mask = trg_ids == trg_id: the positions of the batch it selects
Masked(batch, trg_id) == {i \in DOMAIN batch : batch[i].trg_id = trg_id}

\* the loop over range(self.num_targets) from trg_id on (lines 124-150): a
\* target without a sample is skipped; any other adds one term, the main
\* loss of its samples plus, if enabled, their metric loss, divided by
\* 1 + enable_metric_losses
RECURSIVE TargetLoop(_, _, _, _)
TargetLoop(self, batch, trg_id, terms) ==
    IF trg_id >= self.num_targets THEN terms
    ELSE IF Masked(batch, trg_id) = {}
    THEN TargetLoop(self, batch, trg_id + 1, terms)
    ELSE TargetLoop(self, batch, trg_id + 1,
                    Append(terms,
                           [trg |-> trg_id, samples |-> Masked(batch, trg_id),
                            losses |-> IF self.enable_metric_losses
                                       THEN {"main", "ml"} ELSE {"main"},
                            div |-> IF self.enable_metric_losses THEN 2 ELSE 1]))

\* one round of the loop over the train loader (lines 113-152), whose
\* batches hold at least one sample: the total
\* loss is the sum of the terms divided by float(num_trg_losses), a
\* ZeroDivisionError when no term was added, which ends the training
TrainBatch ==
    /\ engine.state = "ready"
    /\ engine.batch_idx < Len(engine.train_loader)
    /\ LET batch == engine.train_loader[engine.batch_idx + 1]
           terms == TargetLoop(engine, batch, 0, <<>>)
           num_trg_losses == Len(terms)
       IN  engine' = [engine EXCEPT
                        !.batch_idx = @ + 1,
                        !.batch = batch, !.terms = terms,
                        !.num_trg_losses = num_trg_losses,
                        !.exc = IF num_trg_losses = 0 THEN "ZeroDivisionError"
                                ELSE "none",
                        !.state = IF num_trg_losses = 0 THEN "raised" ELSE "ready"]
    /\ UNCHANGED <<rep, heap, ds, last, calls, runner>>

\* an engine of any configuration whose train loader holds one batch
InitEngine ==
    \E num_classes \in NumClasses, enable \in BOOLEAN, batch \in Batches :
        /\ rep = "tuple" /\ heap = <<>>
        /\ ds = [n \in Names |-> NoDataset]
        /\ last = NoOp /\ calls = NoCalls /\ runner = NoRunner
        /\ engine = [NewEngine(num_classes, enable) EXCEPT !.train_loader = <<batch>>]

SpecEngine == InitEngine /\ [][TrainBatch]_vars

\* ---------------------------------------------------------------- run_classification

\* keys of the dict 'datasets' that the runs here know, as sorted() orders them
SortedKeys == <<"CIFAR100", "DTD">>

Metrics == {"mAP", "Rank-1", "Rank-5"}

\* the lines of the aggregated output file: the name of a dataset, a line
\* that starts with a metric (with a decimal number in it, or without one),
\* or any other line
Lines ==
    {[kind |-> "name", key |-> k, metric |-> "none", match |-> FALSE, value |-> 0] :
        k \in Range(SortedKeys)}
    \cup {[kind |-> "metric", key |-> "none", metric |-> m, match |-> TRUE, value |-> v] :
             m \in Metrics, v \in {1, 2}}
    \cup {[kind |-> "metric", key |-> "none", metric |-> m, match |-> FALSE, value |-> 0] :
             m \in Metrics}
    \cup {[kind |-> "other", key |-> "none", metric |-> "none", match |-> FALSE, value |-> 0]}

\* d[k] = v of a Python dict
Put(d, k, v) == [x \in DOMAIN d \cup {k} |-> IF x = k THEN v ELSE d[x]]

\* lines 104-116: the loop over the lines of the file.  next_dataset is
\* unbound until a dataset name has been read, and reading it then raises
\* UnboundLocalError
RECURSIVE ParseLines(_, _, _, _)
ParseLines(lines, i, next_dataset, saver) ==
    IF i > Len(lines) THEN [exc |-> "none", saver |-> saver]
    ELSE LET line == lines[i]
         IN  IF line.kind = "name"
             THEN ParseLines(lines, i + 1, line.key, Put(saver, line.key, EmptyMap))
             ELSE IF line.kind = "other"
             THEN ParseLines(lines, i + 1, next_dataset, saver)
             ELSE IF next_dataset = "unbound"
             THEN [exc |-> "UnboundLocalError", saver |-> saver]
             ELSE LET entry == saver[next_dataset]
                      listed == IF line.metric \in DOMAIN entry THEN entry
                                ELSE Put(entry, line.metric, <<>>)
                      added == IF line.match
                               THEN Put(listed, line.metric,
                                        Append(listed[line.metric], line.value))
                               ELSE listed
                  IN  ParseLines(lines, i + 1, next_dataset,
                                 Put(saver, next_dataset, added))

\* np.argmax of a non-empty list: the first position of its maximum, from 0
ArgMax(list) ==
    (CHOOSE i \in DOMAIN list :
        /\ \A j \in DOMAIN list : list[j] <= list[i]
        /\ \A j \in DOMAIN list : (j < i) => list[j] < list[i]) - 1

\* lines 122-129 for one key with an entry: the exception raised, or the
\* four values added to the report
BestOf(entry) ==
    IF "Rank-1" \notin DOMAIN entry THEN [exc |-> "KeyError", values |-> <<>>]
    ELSE IF entry["Rank-1"] = <<>> THEN [exc |-> "ValueError", values |-> <<>>]
    ELSE LET best_top_1_idx == ArgMax(entry["Rank-1"])
         IN  IF "mAP" \notin DOMAIN entry \/ "Rank-5" \notin DOMAIN entry
             THEN [exc |-> "KeyError", values |-> <<>>]
             ELSE IF best_top_1_idx >= Len(entry["mAP"])
                     \/ best_top_1_idx >= Len(entry["Rank-5"])
             THEN [exc |-> "IndexError", values |-> <<>>]
             ELSE [exc |-> "none",
                   values |-> <<entry["mAP"][best_top_1_idx + 1],
                                entry["Rank-1"][best_top_1_idx + 1],
                                entry["Rank-5"][best_top_1_idx + 1],
                                best_top_1_idx>>]

\* lines 119-132: the loop over sorted(datasets.keys()) from key i on
RECURSIVE ReportLoop(_, _, _)
ReportLoop(saver, i, values) ==
    IF i > Len(SortedKeys) THEN [exc |-> "none", values |-> values]
    ELSE IF SortedKeys[i] \in DOMAIN saver
    THEN LET best == BestOf(saver[SortedKeys[i]])
         IN  IF best.exc # "none" THEN [exc |-> best.exc, values |-> values]
             ELSE ReportLoop(saver, i + 1, Append(values, best.values))
    ELSE ReportLoop(saver, i + 1, Append(values, <<0 - 1, 0 - 1, 0 - 1, 0 - 1>>))

\* main() from the parsing of the output file on (lines 101-134)
Run ==
    /\ runner.state = "new"
    /\ \E parsed \in {ParseLines(runner.lines, 1, "unbound", EmptyMap)} :
       \E report \in {IF parsed.exc # "none" THEN [exc |-> parsed.exc, values |-> <<>>]
                      ELSE ReportLoop(parsed.saver, 1, <<>>)} :
           runner' = [runner EXCEPT
                        !.state = IF report.exc = "none" THEN "done" ELSE "raised",
                        !.exc = report.exc, !.saver = parsed.saver,
                        !.values = IF report.exc = "none" THEN report.values ELSE <<>>]
    /\ UNCHANGED <<rep, heap, ds, last, calls, engine>>

\* an output file of at most MaxLines lines
InitRunner ==
    \E lines \in UNION {[1..n -> Lines] : n \in 0..MaxLines} :
        /\ rep = "tuple" /\ heap = <<>>
        /\ ds = [n \in Names |-> NoDataset]
        /\ last = NoOp /\ calls = NoCalls /\ engine = NoEngine
        /\ runner = [NoRunner EXCEPT !.state = "new", !.lines = lines]

SpecRunner == InitRunner /\ [][Run]_vars

\* ---------------------------------------------------------------- vocabulary of the properties

\* the object the latest operation ran on, after and before it
Self == ds[last.self]
Pre == last.pre[last.self]

\* the latest operation was a combine_all that returned normally
Combined == last.op = "combine_all" /\ ~last.err

\* the latest operation was an a + b that returned a dataset
Added == last.op = "add" /\ ~last.err

\* the dataset ids / identity ids / camera ids of the records of a split
DatasetIdsIn(h, data) == {DatasetIdOf(h[r]) : r \in Range(data)}
IdsIn(h, data, d) == {h[r].obj_id : r \in {x \in Range(data) : DatasetIdOf(h[x]) = d}}
CamsIn(h, data, d) == {h[r].cam_id : r \in {x \in Range(data) : DatasetIdOf(h[x]) = d}}

\* the same, by the dataset_id field a record carries (for a tuple: record[3])
CarriedIn(h, data) == {h[r].dataset_id : r \in Range(data)}
CarriedIdsIn(h, data, d) == {h[r].obj_id : r \in {x \in Range(data) : h[x].dataset_id = d}}
CarriedCamsIn(h, data, d) == {h[r].cam_id : r \in {x \in Range(data) : h[x].dataset_id = d}}

\* the non-junk records of a split of the pre-state, in order
NonJunk(data) ==
    LET Keep(r) == last.pre_heap[r].obj_id \notin _junk_pids
    IN  SelectSeq(data, Keep)

\* the records a combine_all had to append: sources in order
Sources == NonJunk(Pre.query) \o NonJunk(Pre.gallery)

\* the records the latest operation appended to train
Appended == SubSeq(Self.train, Len(Pre.train) + 1, Len(Self.train))

\* non-junk identities of query and gallery with dataset id d, before the merge
NewIds(d) == IdsIn(last.pre_heap, Sources, d)

\* number of distinct train identities of d before the merge
NumTrainIds(d) == Cardinality(IdsIn(last.pre_heap, Pre.train, d))

\* ---------------------------------------------------------------- C1

\* C1: parse_data returns, for every dataset_id carried by a record of the
\* split, the number of distinct identity ids and of distinct camera ids of
\* the records carrying it, and has no other entry - for dict records and for
\* tuple records with a dataset_id field.  (Checked on the index the
\* constructor computes from train.)
C1_ParseDataCountsPerCarriedDatasetId ==
    (last.op = "init" /\ Self.state = "ready") =>
        /\ DOMAIN Self.num_train_pids = CarriedIn(heap, Self.train)
        /\ DOMAIN Self.num_train_cams = CarriedIn(heap, Self.train)
        /\ \A d \in CarriedIn(heap, Self.train) :
              /\ d \in DOMAIN Self.num_train_pids
              /\ d \in DOMAIN Self.num_train_cams
              /\ Self.num_train_pids[d] = Cardinality(CarriedIdsIn(heap, Self.train, d))
              /\ Self.num_train_cams[d] = Cardinality(CarriedCamsIn(heap, Self.train, d))

\* ---------------------------------------------------------------- C2

\* the (dataset id, old identity, new label) triples of the appended records
Relabelled ==
    {<<DatasetIdOf(last.pre_heap[Sources[i]]), last.pre_heap[Sources[i]].obj_id,
       heap[Appended[i]].obj_id>> : i \in 1..Len(Sources)}

\* C2: a combine_all that returns has relabelled, for each dataset id d, the
\* distinct non-junk identities of query and gallery one-to-one onto
\* n_d .. n_d + k_d - 1, a (dataset id, identity) getting one label wherever
\* it occurs.
C2_DenseRelabelPerDataset ==
    Combined =>
        /\ Len(Appended) = Len(Sources)
        /\ \A s, t \in Relabelled :
              (s[1] = t[1]) => ((s[2] = t[2]) <=> (s[3] = t[3]))
        /\ \A d \in DatasetIdsIn(last.pre_heap, Sources) :
              {t[3] : t \in {x \in Relabelled : x[1] = d}}
                = NumTrainIds(d) .. (NumTrainIds(d) + Cardinality(NewIds(d)) - 1)

\* a merge that relabelled two identities of one dataset id after existing train identities
C2_Witness ==
    /\ Combined
    /\ \E d \in DatasetIdsIn(last.pre_heap, Sources) :
          Cardinality(NewIds(d)) >= 2 /\ NumTrainIds(d) >= 1

\* ---------------------------------------------------------------- C3

\* an appended record carries an identity id of an original train record of
\* its dataset id
Collision ==
    \E i \in 1..Len(Appended) : \E r \in Range(Pre.train) :
        /\ DatasetIdOf(last.pre_heap[r]) = DatasetIdOf(heap[Appended[i]])
        /\ last.pre_heap[r].obj_id = heap[Appended[i]].obj_id

\* the train identity ids of every dataset id are 0 .. n_d - 1
DenseTrainIds(h, data) ==
    \A d \in DatasetIdsIn(h, data) :
        IdsIn(h, data, d) = 0 .. (Cardinality(IdsIn(h, data, d)) - 1)

\* C3 (as claimed): after combine_all no appended label equals an identity id
\* of an original train record of the same dataset id, whatever ids train uses.
C3_NoCollisionAnyTrainIds == Combined => ~Collision

\* C3 (amended): the same, when the train identity ids of every dataset id are
\* 0 .. n_d - 1 before the merge.
C3_NoCollisionDenseTrainIds ==
    (Combined /\ DenseTrainIds(last.pre_heap, Pre.train)) => ~Collision

C3_Witness ==
    /\ Combined
    /\ DenseTrainIds(last.pre_heap, Pre.train)
    /\ Len(Pre.train) >= 2
    /\ Len(Appended) >= 1

\* ---------------------------------------------------------------- C4

\* the query and gallery records of the pre-state whose identity is junk
JunkSources ==
    {r \in Range(Pre.query) \cup Range(Pre.gallery) :
        last.pre_heap[r].obj_id \in _junk_pids}

\* C4: combine_all never appends a query or gallery record whose identity id
\* is in _junk_pids (no appended record has the path of one), and a junk
\* identity is no key of the label map and takes no label: the labels given
\* for a dataset id stay below n_d + (number of its non-junk identities).
C4_JunkNeverMerged ==
    (last.op = "combine_all") =>
        /\ \A i \in 1..Len(Appended) : \A r \in JunkSources :
              heap[Appended[i]].img_path # last.pre_heap[r].img_path
        /\ \A d \in DOMAIN last.id2label_map :
              DOMAIN last.id2label_map[d] \cap _junk_pids = {}
        /\ \A i \in 1..Len(Appended) :
              LET d == DatasetIdOf(heap[Appended[i]])
              IN  heap[Appended[i]].obj_id < NumTrainIds(d) + Cardinality(NewIds(d))

\* a merge of a split holding a junk record and a record that is kept
C4_Witness ==
    /\ Combined
    /\ JunkSources # {}
    /\ Len(Appended) >= 1

\* ---------------------------------------------------------------- C5

\* two record values agree in every field but the identity id
SameButObjId(x, y) == [x EXCEPT !.obj_id = 0] = [y EXCEPT !.obj_id = 0]

\* C5: after combine_all, train is the original train records (same values,
\* same order), then the non-junk query records, then the non-junk gallery
\* records, each appended record equal to its source in every field but the
\* identity id; query and gallery are unchanged.
C5_TrainIsTrainThenQueryThenGallery ==
    Combined =>
        /\ Len(Self.train) = Len(Pre.train) + Len(NonJunk(Pre.query))
                                + Len(NonJunk(Pre.gallery))
        /\ \A i \in 1..Len(Pre.train) :
              heap[Self.train[i]] = last.pre_heap[Pre.train[i]]
        /\ \A i \in 1..Len(Sources) :
              SameButObjId(heap[Self.train[Len(Pre.train) + i]],
                           last.pre_heap[Sources[i]])
        /\ Self.query = Pre.query
        /\ Self.gallery = Pre.gallery
        /\ \A r \in Range(Pre.query) \cup Range(Pre.gallery) :
              heap[r] = last.pre_heap[r]

\* a merge that kept a train record and appended a query and a gallery record
C5_Witness ==
    /\ Combined
    /\ Len(Pre.train) >= 1
    /\ Len(NonJunk(Pre.query)) >= 1
    /\ Len(NonJunk(Pre.gallery)) >= 1

\* ---------------------------------------------------------------- C9, C10

\* C9: a constructed dataset's num_train_pids has exactly the dataset ids of
\* the current train split as keys and maps each to the number of distinct
\* identity ids train holds for it - after construction and after every
\* combine_all.
C9_NumTrainPidsCurrent ==
    \A n \in Names :
        (ds[n].state = "ready") =>
            /\ DOMAIN ds[n].num_train_pids = DatasetIdsIn(heap, ds[n].train)
            /\ \A d \in DOMAIN ds[n].num_train_pids :
                  ds[n].num_train_pids[d] = Cardinality(IdsIn(heap, ds[n].train, d))

\* a combine_all that changed the number of train identities
C9_Witness ==
    /\ Combined
    /\ Self.num_train_pids # Pre.num_train_pids

\* C10: after combine_all, num_train_cams is the number of distinct camera ids
\* per dataset id of the new train split.
C10_NumTrainCamsCurrent ==
    Combined =>
        /\ DOMAIN Self.num_train_cams = DatasetIdsIn(heap, Self.train)
        /\ \A d \in DOMAIN Self.num_train_cams :
              Self.num_train_cams[d] = Cardinality(CamsIn(heap, Self.train, d))

\* ---------------------------------------------------------------- C6, C7, C8

\* the operands of the latest a + b as they were when it started
PreA == last.pre["a"]
PreB == last.pre["b"]

\* the part of the combined train split that came from b.train
FromB == SubSeq(ds["c"].train, Len(PreA.train) + 1, Len(ds["c"].train))

\* the part that came from a.train
FromA == SubSeq(ds["c"].train, 1, Len(PreA.train))

\* C6: in a + b, the record of the combined train split that corresponds to
\* the record r of b.train has identity id r.identity_id + P and camera id
\* r.camera_id + C, P and C being the numbers of distinct identities and of
\* distinct cameras a.train holds for r's dataset id (0 when it holds none).
C6_OffsetsAreCountsOfATrain ==
    Added =>
        /\ Len(FromB) = Len(PreB.train)
        /\ \A i \in 1..Len(PreB.train) :
              LET r == last.pre_heap[PreB.train[i]]
                  d == DatasetIdOf(r)
              IN  /\ heap[FromB[i]].obj_id
                        = r.obj_id + Cardinality(IdsIn(last.pre_heap, PreA.train, d))
                  /\ heap[FromB[i]].cam_id
                        = r.cam_id + Cardinality(CamsIn(last.pre_heap, PreA.train, d))

\* the camera ids of every dataset id are 0 .. c_d - 1
DenseCamIds(h, data) ==
    \A d \in DatasetIdsIn(h, data) :
        CamsIn(h, data, d) = 0 .. (Cardinality(CamsIn(h, data, d)) - 1)

\* C7: in the train split of a + b, for every dataset id, the identity ids of
\* the records from b.train are disjoint from those of the records from
\* a.train, and so are the camera ids.  Stated for operands a whose train
\* split numbers identities and cameras 0, 1, 2, ... per dataset id, which is
\* the case the offsets are made for; the claim covers more.
C7_DisjointIdsAndCams ==
    (Added /\ DenseTrainIds(last.pre_heap, PreA.train)
           /\ DenseCamIds(last.pre_heap, PreA.train)) =>
        \A d \in DatasetIds :
            /\ IdsIn(heap, FromA, d) \cap IdsIn(heap, FromB, d) = {}
            /\ CamsIn(heap, FromA, d) \cap CamsIn(heap, FromB, d) = {}

\* the record objects the caller handed in, of every split of every dataset
OriginalRefs ==
    UNION {Range(last.pre[n].train) \cup Range(last.pre[n].query)
               \cup Range(last.pre[n].gallery) : n \in Names}

\* the train split the latest operation produced
ProducedTrain == IF last.op = "add" THEN ds["c"].train ELSE Self.train

\* C8: combine_all and a + b leave every record of the original splits with
\* its field values, and the combined train split shares no record object
\* with an original split.  (Sharing is stated for dict records: a tuple is
\* immutable, and deepcopy hands back the same tuple object.)
C8_OriginalsPreserved ==
    (Combined \/ Added) =>
        /\ \A r \in OriginalRefs : heap[r] = last.pre_heap[r]
        /\ (rep = "dict") => (Range(ProducedTrain) \cap OriginalRefs = {})

\* ---------------------------------------------------------------- a + b: failures and the class of the result

\* the latest operation was an a + b, returned or not
TriedAdd == last.op = "add"

\* the field values of the records of a split, in order
ValuesOf(h, data) == [i \in 1..Len(data) |-> h[data[i]]]

CombinedTrainBefore == PreA.train \o PreB.train
FirstMedia == last.pre_heap[CombinedTrainBefore[1]].media

\* C12: a + b returns an image dataset when the media field of the first
\* record of the combined train split is a single path, and a tracklet
\* dataset with a's seq_len and sample_method when it is a sequence of paths.
C12_ClassFollowsFirstMedia ==
    (TriedAdd /\ CombinedTrainBefore # <<>>) =>
        /\ ~last.err
        /\ ds["c"].state = "ready"
        /\ IF FirstMedia = "str" THEN ds["c"].cls = "ImageDataset"
           ELSE /\ ds["c"].cls = "VideoDataset"
                /\ ds["c"].seq_len = PreA.seq_len
                /\ ds["c"].sample_method = PreA.sample_method

\* the same for an a that is a VideoDataset, or a first record that is an image
C12_ClassFollowsFirstMediaOfVideo ==
    (PreA.cls = "VideoDataset" \/ CombinedTrainBefore = <<>> \/ FirstMedia = "str")
        => C12_ClassFollowsFirstMedia

\* the latest operation, a combine_all or an a + b, raised
Raised == last.op \in {"combine_all", "add"} /\ last.err

\* C13: when combine_all or a + b raises, every record of the original
\* splits (train, query, gallery of every operand) has the field values it
\* had before the call, and every dataset has the train split it had.
C13_FailureLeavesOperandsAlone ==
    Raised =>
        /\ \A r \in OriginalRefs : heap[r] = last.pre_heap[r]
        /\ \A n \in Names : /\ ds[n].train = last.pre[n].train
                            /\ ds[n].query = last.pre[n].query
                            /\ ds[n].gallery = last.pre[n].gallery

\* a combine_all on a constructed dataset raised with records to append
C13_Witness ==
    /\ Raised /\ last.op = "combine_all"
    /\ Pre.state = "ready" /\ Pre.train # <<>> /\ Pre.query # <<>>

\* an a + b raised after its loop over a non-empty b.train of dict records
C13_WitnessAdd ==
    Raised /\ last.op = "add" /\ PreB.train # <<>> /\ rep = "dict"

\* ---------------------------------------------------------------- frame sampling

\* the latest operation was x[index] on a VideoDataset
Sampled == last.op = "getitem"

\* the tracklet length N, the target length L and the policy of that call
N == Len(last.pre_heap[Pre.data[last.index]].img_path)
L == Pre.seq_len
Policy == Pre.sample_method

\* the call resolved its indices and raised nothing in doing so
Resolved == last.assigned /\ last.exc \notin {"ValueError", "AssertionError"}

\* C14: policy 'evenly' with N >= L >= 1 produces exactly the indices
\* k * (N' / L) for k = 0 .. L-1, where N' = N - (N mod L).
C14_EvenlyLongTracklet ==
    (Sampled /\ Policy = "evenly" /\ N >= L /\ L >= 1) =>
        /\ Resolved
        /\ last.indices = [k \in 1..L |-> (k - 1) * ((N - (N % L)) \div L)]

\* a tracklet whose length is no multiple of L and at least 2 L
C14_Witness ==
    /\ Sampled /\ Policy = "evenly" /\ N >= 2 * L /\ N % L # 0 /\ L >= 2
    /\ last.returned

\* C15: policy 'evenly' with 1 <= N < L produces the indices 0, 1, ..., N-1
\* in order followed by exactly L - N copies of the last index N-1.
C15_EvenlyShortTracklet ==
    (Sampled /\ Policy = "evenly" /\ 1 <= N /\ N < L) =>
        /\ Resolved
        /\ last.indices = [k \in 1..L |-> IF k <= N THEN k - 1 ELSE N - 1]

\* a tracklet of at least two frames padded with at least one copy
C15_Witness ==
    /\ Sampled /\ Policy = "evenly" /\ 2 <= N /\ N < L
    /\ last.returned /\ last.indices[L] = N - 1

PairwiseDistinct(c) == \A i, j \in DOMAIN c : (c[i] = c[j]) => (i = j)
NonDecreasing(c) == \A i, j \in DOMAIN c : (i <= j) => (c[i] <= c[j])

\* C16: policy 'random' with N >= 1, L >= 1 produces L indices, each in
\* [0, N), in non-decreasing order; with N >= L they are pairwise distinct
\* (for N = L exactly 0, 1, ..., N-1), so a repeated index needs N < L.
C16_RandomSortedAndDistinct ==
    (Sampled /\ Policy = "random" /\ N >= 1 /\ L >= 1) =>
        /\ Resolved
        /\ Len(last.indices) = L
        /\ \A k \in 1..L : last.indices[k] \in 0..(N - 1)
        /\ NonDecreasing(last.indices)
        /\ (N >= L) => PairwiseDistinct(last.indices)
        /\ (N = L) => last.indices = [k \in 1..N |-> k - 1]
        /\ ~PairwiseDistinct(last.indices) => (N < L)

\* a draw without replacement that skipped the first frame
C16_Witness ==
    /\ Sampled /\ Policy = "random" /\ N > L /\ L >= 2
    /\ last.returned /\ last.indices[1] >= 1

\* a draw with replacement that repeated an index
C16_WitnessRepeated ==
    /\ Sampled /\ Policy = "random" /\ 2 <= N /\ N < L
    /\ last.returned /\ ~PairwiseDistinct(last.indices)

\* C17: policy 'all' produces exactly the indices 0, 1, ..., N-1 in order,
\* N of them, whatever the target length L.
C17_AllIgnoresSeqLen ==
    (Sampled /\ Policy = "all") =>
        /\ Resolved
        /\ last.indices = [k \in 1..N |-> k - 1]
        /\ Len(last.indices) = N

\* a tracklet longer than L returned whole
C17_Witness ==
    /\ Sampled /\ Policy = "all" /\ N > L
    /\ last.returned /\ Len(last.imgs) = N

\* C18: for the policies 'random' and 'evenly', N >= 1 and L >= 1, the number
\* of indices is exactly L; the assertion of the 'evenly' branch never fails.
C18_ExactlySeqLenIndices ==
    (Sampled /\ Policy \in {"random", "evenly"} /\ N >= 1 /\ L >= 1) =>
        /\ last.assigned
        /\ Len(last.indices) = L
        /\ last.exc # "AssertionError"

\* the assertion passed on a short tracklet and on a long uneven one
C18_Witness ==
    /\ Sampled /\ Policy = "evenly" /\ last.returned
    /\ (N < L \/ N % L # 0) /\ Len(last.imgs) = L /\ N # L

\* C19: a policy name other than 'random', 'evenly', 'all' raises an error
\* and produces no indices and no media, for every such name and tracklet.
C19_UnknownPolicyRaises ==
    (Sampled /\ Policy \notin {"random", "evenly", "all"}) =>
        /\ last.err /\ last.exc = "ValueError"
        /\ ~last.assigned /\ last.indices = <<>>
        /\ ~last.returned /\ last.imgs = <<>>

\* the call raised on a tracklet that has frames
C19_Witness ==
    /\ Sampled /\ Policy \notin {"random", "evenly", "all"} /\ N >= 1
    /\ last.err

\* ---------------------------------------------------------------- the split a constructor exposes

\* the latest operation was a constructor call
Constructed == last.ctor

\* the split of the constructed object that the mode names
SplitOf(self, mode) ==
    IF mode = "train" THEN self.train
    ELSE IF mode = "query" THEN self.query
    ELSE self.gallery

\* C20: a constructor given mode 'train', 'query' or 'gallery' exposes exactly
\* that split as self.data; for 'train' with combineall=True that is the
\* combined train split, combine_all having run before the selection; any
\* other mode raises.  (A constructor whose combine_all raised exposes
\* nothing.)
C20_ModeSelectsData ==
    Constructed =>
        /\ (Pre.mode \notin {"train", "query", "gallery"}) => Self.state = "failed"
        /\ (Pre.mode \in {"train", "query", "gallery"} /\ ~last.err) =>
              /\ Self.state = "ready"
              /\ Self.data = SplitOf(Self, Pre.mode)
              /\ Self.query = Pre.query /\ Self.gallery = Pre.gallery
              /\ IF last.op = "combine_all"
                 THEN /\ Len(Self.train) = Len(Pre.train) + Len(Sources)
                      /\ ValuesOf(heap, SubSeq(Self.train, 1, Len(Pre.train)))
                            = ValuesOf(last.pre_heap, Pre.train)
                 ELSE Self.train = Pre.train

\* mode 'train' with combineall=True exposed a train split that grew
C20_Witness ==
    /\ Constructed /\ Pre.mode = "train" /\ last.op = "combine_all" /\ ~last.err
    /\ Self.state = "ready" /\ Len(Self.data) > Len(Pre.train)

\* mode 'query' exposed the query split, and an unknown mode raised
C20_WitnessQuery ==
    /\ Constructed /\ Pre.mode = "query" /\ Self.state = "ready"
    /\ Self.data # <<>> /\ Self.data # Self.train
C20_WitnessUnknown ==
    Constructed /\ Pre.mode = "test" /\ Self.state = "failed" /\ Self.train # <<>>

\* ---------------------------------------------------------------- combine_all called again

\* the latest operation was a combine_all on a dataset already combined
CombinedAgain == last.op = "combine_all" /\ Pre.ncombine >= 1

\* C21: combine_all is not idempotent: called again on the same object it
\* runs (nothing guards it, and it does not raise) and appends the non-junk
\* query and gallery records once more - as many as the first call, query
\* and gallery being what they were - under labels offset by the identity
\* count of the train split the earlier call left.
C21_SecondCombineMergesAgain ==
    CombinedAgain =>
        /\ ~last.err
        /\ Self.ncombine = Pre.ncombine + 1
        /\ Self.query = Pre.query /\ Self.gallery = Pre.gallery
        /\ Len(Self.train) = Len(Pre.train) + Len(Sources)
        /\ ValuesOf(heap, SubSeq(Self.train, 1, Len(Pre.train)))
              = ValuesOf(last.pre_heap, Pre.train)
        /\ \A i \in 1..Len(Sources) :
              LET src == last.pre_heap[Sources[i]]
                  d == DatasetIdOf(src)
              IN  /\ heap[Appended[i]].img_path = src.img_path
                  /\ heap[Appended[i]].obj_id
                        = last.id2label_map[d][src.obj_id] + NumTrainIds(d)
                  /\ Pre.num_train_pids[d] = NumTrainIds(d)

\* a second merge appended records after a train split the first had grown
C21_Witness ==
    /\ CombinedAgain /\ ~last.err /\ Pre.ncombine = 1
    /\ Len(Sources) >= 1 /\ Len(Pre.train) > Len(Sources)
    /\ Len(Self.train) = Len(Pre.train) + Len(Sources)

\* ---------------------------------------------------------------- the order of the labels

\* the (dataset id, identity, label) triples of the records x appended to
\* its train split (self.data is still the train split of before): an
\* appended record keeps the path of its source
LabelsGiven(x) ==
    {<<DatasetIdOf(heap[heap[r].img_path]), heap[heap[r].img_path].obj_id,
       heap[r].obj_id>> :
        r \in {ds[x].train[i] : i \in (Len(ds[x].data) + 1) .. Len(ds[x].train)}}

\* the non-junk (dataset id, identity) pairs of query and gallery of x
PairsOf(x) ==
    {<<DatasetIdOf(heap[r]), heap[r].obj_id>> :
        r \in {y \in Range(ds[x].query) \cup Range(ds[x].gallery) :
                   heap[y].obj_id \notin _junk_pids}}

\* a and b were combined once each, from equal train splits and the same
\* set of non-junk pairs
TwoRuns ==
    /\ ds["a"].state = "ready" /\ ds["b"].state = "ready"
    /\ ds["a"].ncombine = 1 /\ ds["b"].ncombine = 1
    /\ PairsOf("a") = PairsOf("b")
    /\ Len(ds["a"].data) = Len(ds["b"].data)
    /\ \A i \in DOMAIN ds["a"].data :
          /\ heap[ds["a"].data[i]].obj_id = heap[ds["b"].data[i]].obj_id
          /\ heap[ds["a"].data[i]].cam_id = heap[ds["b"].data[i]].cam_id
          /\ heap[ds["a"].data[i]].dataset_id = heap[ds["b"].data[i]].dataset_id

\* C22: two runs of combine_all on datasets with equal train splits and the
\* same set of non-junk (dataset id, identity) pairs in query and gallery
\* give every identity the same label, whatever the order of the records.
C22_LabelsIndependentOfOrder ==
    TwoRuns => LabelsGiven("a") = LabelsGiven("b")

\* the same when no two identities share a slot of the table
C22_LabelsOfApartIds ==
    (TwoRuns /\ \A p, q \in PairsOf("a") : (p[2] % 8 = q[2] % 8) => (p = q))
        => LabelsGiven("a") = LabelsGiven("b")


\* ---------------------------------------------------------------- C23

\* C23: the dataset a + b returns has combineall=False and verbose=False
\* whatever the flags of a and b: its constructor ran no combine_all (its
\* train split is updated_train, one record per record of a.train and
\* b.train) and printed no summary; its query, gallery, mode and transform
\* are those of a.
C23_SumHasFlagsOffAndSplitsOfA ==
    Added =>
        /\ ds["c"].state = "ready"
        /\ ~ds["c"].combineall /\ ~ds["c"].verbose
        /\ ds["c"].ncombine = 0
        /\ Len(ds["c"].train) = Len(PreA.train) + Len(PreB.train)
        /\ ds["c"].summary = <<>>
        /\ ds["c"].query = PreA.query /\ ds["c"].gallery = PreA.gallery
        /\ ds["c"].mode = PreA.mode /\ ds["c"].transform = PreA.transform

\* a and b were both constructed with combineall=True and verbose=True, a
\* with a transform, mode 'query' and a non-empty query split
C23_Witness ==
    /\ Added
    /\ PreA.combineall /\ PreA.verbose /\ PreB.combineall /\ PreB.verbose
    /\ PreA.summary # <<>>
    /\ PreA.transform = "t" /\ PreA.mode = "query"
    /\ Len(PreA.query) >= 1 /\ Len(PreB.train) >= 1

\* the sum of two tracklet datasets
C23_WitnessVideo ==
    /\ Added
    /\ ds["c"].cls = "VideoDataset" /\ PreA.combineall
    /\ Len(PreA.query) >= 1 /\ Len(PreB.train) >= 1

\* ---------------------------------------------------------------- C24

\* the latest round of sum() returned; the call has gone through all operands
Summed == last.op = "sum" /\ ~last.err
SumDone ==
    /\ calls["main"].pc = "sum"
    /\ calls["main"].i > Len(calls["main"].operands)

\* the result of sum() so far, and the accumulator and the operand of the
\* latest round as they were before it
SumResult == ds[calls["main"].acc.ref]
AccBefore == last.pre[last.before.ref]
Operand == last.pre[last.self]

\* the latest round was result + item as __add__ defines it: the train split
\* of the new result is that of the accumulator followed by one record per
\* record of the item, its identity raised by the number of distinct
\* identities the accumulated train holds for its dataset_id
OffsetByAccumulated ==
    /\ calls["main"].acc.ref = "s"
    /\ Len(SumResult.train) = Len(AccBefore.train) + Len(Operand.train)
    /\ ValuesOf(heap, SubSeq(SumResult.train, 1, Len(AccBefore.train)))
         = ValuesOf(last.pre_heap, AccBefore.train)
    /\ \A j \in 1..Len(Operand.train) :
         LET src == last.pre_heap[Operand.train[j]]
             new == heap[SumResult.train[Len(AccBefore.train) + j]]
         IN  new.obj_id = src.obj_id
                 + Cardinality(IdsIn(last.pre_heap, AccBefore.train, DatasetIdOf(src)))

\* the number of identities sum() was given: n1 + ... + nk, the counts the
\* operands were constructed with
RECURSIVE GivenIds(_, _)
GivenIds(operands, i) ==
    IF i > Len(operands) THEN 0
    ELSE SumValues(ds[operands[i]].num_train_pids) + GivenIds(operands, i + 1)

\* the train split of the result holds exactly the identities 0 .. n-1
DenseResult ==
    LET n == GivenIds(calls["main"].operands, 1)
    IN  /\ (n > 0) => SumResult.train # <<>>
        /\ \A d \in DatasetIdsIn(heap, SumResult.train) :
             IdsIn(heap, SumResult.train, d) = 0 .. (n - 1)

\* C24: sum([d1, ..., dk]) is the left fold ((d1 + d2) + ...) + dk.  The
\* first round, 0 + d1, returns d1 itself and changes nothing; every later
\* round offsets the identities of the next dataset by the distinct-identity
\* count of the train split accumulated so far; and when the call returns, for
\* operands with dense zero-based identities of one dataset_id, the result
\* holds exactly the identities 0 .. n1 + ... + nk - 1.
C24_SumIsDenseLeftFold ==
    /\ (Summed /\ last.step = 1) =>
          /\ calls["main"].acc.ref = last.self
          /\ ds = last.pre /\ heap = last.pre_heap
    /\ (Summed /\ last.step > 1) => OffsetByAccumulated
    /\ (Summed /\ SumDone) => DenseResult

\* the same for lists that name no dataset twice, and for tuple records
C24_SumOfDistinctIsDenseLeftFold ==
    (rep = "tuple" \/ PairwiseDistinct(calls["main"].operands)) =>
        C24_SumIsDenseLeftFold

\* sum([a, b, c]) of three non-empty datasets has returned
C24_WitnessDistinct ==
    /\ Summed /\ SumDone /\ last.step = 3
    /\ PairwiseDistinct(calls["main"].operands)
    /\ \A i \in 1..3 : SumValues(ds[calls["main"].operands[i]].num_train_pids) = MaxFoldIds

\* ---------------------------------------------------------------- C25

\* the latest operation fetched an item of an image dataset
Fetched == last.op = "getimage"

\* the keys of a record other than 'img'
Annotation(r) ==
    [img_path |-> r.img_path, media |-> r.media, obj_id |-> r.obj_id,
     cam_id |-> r.cam_id, dataset_id |-> r.dataset_id]

\* C25: splits are immutable under reads: fetching an item of an image
\* dataset leaves every record stored in train, query and gallery with
\* exactly the fields and values it had before the fetch, for tuple and for
\* dict records.
C25_ReadsLeaveRecordsAlone ==
    Fetched =>
        /\ Self.train = Pre.train /\ Self.query = Pre.query
        /\ Self.gallery = Pre.gallery
        /\ \A ref \in Range(Self.train) \cup Range(Self.query) \cup Range(Self.gallery) :
             heap[ref] = last.pre_heap[ref]

\* what does hold: the splits keep their records, tuple records are left
\* alone, and a dict record keeps every key it had apart from 'img'
C25_ReadsLeaveAnnotationsAlone ==
    Fetched =>
        /\ Self.train = Pre.train /\ Self.query = Pre.query
        /\ Self.gallery = Pre.gallery
        /\ \A ref \in Range(Self.train) \cup Range(Self.query) \cup Range(Self.gallery) :
             /\ Annotation(heap[ref]) = Annotation(last.pre_heap[ref])
             /\ (rep = "tuple") => heap[ref] = last.pre_heap[ref]

\* a tuple record fetched for the second time
C25_WitnessTuple ==
    /\ Fetched /\ rep = "tuple" /\ last.pre["a"] = ds["a"]
    /\ last.returned[1] = <<"t", <<"image", heap[Self.data[last.index]].img_path>>>>

\* ---------------------------------------------------------------- C26

\* what a summary has to report of a split: the number of identities and of
\* cameras, each counted per dataset_id and summed, and the number of items
Counts(h, data) ==
    <<Cardinality({<<DatasetIdOf(h[r]), h[r].obj_id>> : r \in Range(data)}),
      Len(data),
      Cardinality({<<DatasetIdOf(h[r]), h[r].cam_id>> : r \in Range(data)})>>

Report(h, self) ==
    <<Counts(h, self.train), Counts(h, self.query), Counts(h, self.gallery)>>

\* a constructor call with verbose=True that got as far as the summary: its
\* combine_all, if any, returned, and no other argument is refused
ReachedSummary ==
    /\ Constructed /\ ~last.err /\ last.pre[last.self].verbose
    /\ ~(Pre.cls = "VideoDataset" /\ Pre.transform = "None")

Printed == last.op = "repr"

\* C26: the summary completes without error for image and for tracklet
\* datasets, at construction with verbose=True (show_summary) and in
\* __repr__, and reports for train, query and gallery the identities summed
\* over dataset_ids, the items, and the cameras summed over dataset_ids.
C26_SummaryCompletesAndReports ==
    /\ ReachedSummary =>
          /\ Self.state = "ready"
          /\ Self.summary = Report(heap, Self)
    /\ Printed => last.msg = Report(heap, Self)

\* the same of show_summary for image datasets only, and of __repr__
C26_ImageSummaryCompletesAndReports ==
    /\ (ReachedSummary /\ Pre.cls = "ImageDataset") =>
          /\ Self.state = "ready"
          /\ Self.summary = Report(heap, Self)
    /\ Printed => last.msg = Report(heap, Self)

\* a tracklet dataset with two records was constructed with verbose=False
\* and printed
C26_WitnessRepr ==
    /\ Printed /\ Self.cls = "VideoDataset"
    /\ Len(Self.train) + Len(Self.query) + Len(Self.gallery) = MaxFlagRecs

\* ---------------------------------------------------------------- C27

\* the outcome of resolving the indices of the tracklet of dataset a when
\* the call runs alone, for the policies that have one outcome
Alone ==
    CHOOSE r \in ResolveIndices(ds["a"].sample_method,
                                Len(heap[ds["a"].data[1]].img_path),
                                ds["a"].seq_len) : TRUE

\* caller t has resolved its indices
HasResolved(t) == calls[t].pc \in {"resolved", "returned"}

\* C27: resolving sample indices writes no dataset or tracklet state, and
\* calls interleaved by independent callers on the same tracklet return, for
\* 'evenly' and 'all', the same indices as a call that runs alone.
C27_InterleavedCallsResolveAsAlone ==
    /\ (last.op = "getitem_step") => (ds = last.pre /\ heap = last.pre_heap)
    /\ \A t \in {"t1", "t2"} :
         (ds["a"].sample_method \in {"evenly", "all"} /\ calls[t].pc # "idle") =>
            /\ calls[t].num_imgs = Len(heap[ds["a"].data[1]].img_path)
            /\ HasResolved(t) =>
                  (Alone.exc = "none" /\ calls[t].indices = Alone.indices)
            /\ (calls[t].pc = "raised" /\ ~calls[t].assigned) => Alone.exc = calls[t].exc

\* the second caller entered, resolved and returned between the first
\* caller's read of the tracklet length and its resolution, which then
\* cut its own num_imgs ('evenly', N > L, N not a multiple of L)
C27_Witness ==
    /\ ds["a"].sample_method = "evenly"
    /\ last.op = "getitem_step" /\ last.caller = "t1" /\ last.step = "resolve"
    /\ calls["t1"].pc = "resolved" /\ calls["t2"].pc = "returned"
    /\ calls["t1"].num_imgs > ds["a"].seq_len
    /\ calls["t1"].num_imgs % ds["a"].seq_len # 0
    /\ calls["t1"].indices = calls["t2"].indices

\* the same for 'all', both callers between resolution and return
C27_WitnessAll ==
    /\ ds["a"].sample_method = "all"
    /\ calls["t1"].pc = "resolved" /\ calls["t2"].pc = "resolved"
    /\ Len(calls["t1"].indices) = MaxImgs

\* ---------------------------------------------------------------- C28

\* the train identity count combine_all has for dataset d, zero when the
\* train split holds no record of d
CountOrZero(d) ==
    IF d \in DOMAIN Pre.num_train_pids THEN Pre.num_train_pids[d] ELSE 0

\* a non-junk record of query or gallery whose dataset_id is in no train record
MissingFromTrain ==
    \E i \in 1..Len(Sources) :
        DatasetIdOf(last.pre_heap[Sources[i]]) \notin DOMAIN Pre.num_train_pids

\* C28: combine_all completes without error for every combination of train,
\* query and gallery, also when query or gallery holds a non-junk record
\* whose dataset_id occurs in no train record; the train identity count of
\* such a dataset_id is taken as zero.
C28_CombineAllAlwaysCompletes ==
    (last.op = "combine_all") =>
        /\ ~last.err
        /\ Len(Appended) = Len(Sources)
        /\ \A i \in 1..Len(Sources) :
             LET src == last.pre_heap[Sources[i]]
                 d == DatasetIdOf(src)
             IN  heap[Appended[i]].obj_id
                    = last.id2label_map[d][src.obj_id] + CountOrZero(d)

\* what the code does: the call raises exactly when such a record exists
C28_CombineAllFailsIffMissing ==
    (last.op = "combine_all") => (last.err <=> MissingFromTrain)

\* Classification in mode 'query' with combineall=True and a label that is
\* not junk
C28_WitnessFails ==
    /\ last.op = "combine_all" /\ last.ctor /\ last.err
    /\ Pre.mode = "query" /\ Pre.train = <<>> /\ Len(Sources) >= 1

\* ---------------------------------------------------------------- C29

\* the engine has been through a batch
Trained == engine.batch # <<>>

\* the targets of the engine that have a sample in the batch
TargetsWithSamples ==
    {t \in 0..(engine.num_targets - 1) : Masked(engine.batch, t) # {}}

\* the terms of the total loss that sample i of the batch is part of
TermsOf(i) == {k \in DOMAIN engine.terms : i \in engine.terms[k].samples}

\* C29: in every training batch a sample whose dataset id is t contributes to
\* the loss of target t and to no other target; targets with no sample are
\* skipped; the total loss is the sum of the per-target losses divided by the
\* number of targets that had a sample, which is at least 1 for every batch,
\* so the division never divides by zero.
C29_EveryBatchAveragesItsTargets ==
    Trained =>
        /\ engine.exc = "none"
        /\ engine.num_trg_losses >= 1
        /\ engine.num_trg_losses = Cardinality(TargetsWithSamples)
        /\ \A i \in DOMAIN engine.batch :
             /\ TermsOf(i) # {}
             /\ \A k \in TermsOf(i) : engine.terms[k].trg = engine.batch[i].trg_id
        /\ \A k \in DOMAIN engine.terms : engine.terms[k].samples # {}
        /\ \A k, l \in DOMAIN engine.terms :
             (engine.terms[k].trg = engine.terms[l].trg) => (k = l)

\* the same for the batches in which every dataset id is one of the targets
C29_BatchOfKnownTargetsAveragesThem ==
    (\A i \in DOMAIN engine.batch : engine.batch[i].trg_id < engine.num_targets)
        => C29_EveryBatchAveragesItsTargets

\* a batch of MaxBatch samples of two targets, one target without a sample
C29_WitnessKnown ==
    /\ Trained /\ engine.exc = "none"
    /\ Len(engine.batch) = MaxBatch /\ engine.num_trg_losses = 2
    /\ \A i \in DOMAIN engine.batch : engine.batch[i].trg_id < engine.num_targets

\* ---------------------------------------------------------------- C30

\* run_classification has been through the file
Ran == runner.state \in {"done", "raised"}

\* the key of the dataset-name line most recently seen before line i
RECURSIVE LastNameBefore(_, _)
LastNameBefore(lines, i) ==
    IF i <= 1 THEN "unbound"
    ELSE IF lines[i - 1].kind = "name" THEN lines[i - 1].key
    ELSE LastNameBefore(lines, i - 1)

\* the positions of the lines that carry a value of the metric for the key:
\* the name line most recently seen is that of the key
ValueLines(lines, key, metric) ==
    {i \in DOMAIN lines :
        /\ lines[i].kind = "metric" /\ lines[i].metric = metric /\ lines[i].match
        /\ LastNameBefore(lines, i) = key
        /\ \A j \in DOMAIN lines :
             (j > i /\ lines[j].kind = "name") => lines[j].key # key}

\* the values those lines carry, in the order of the file
ValuesIn(lines, key, metric) ==
    LET at == SortSeq(CHOOSE s \in [1..Cardinality(ValueLines(lines, key, metric))
                                     -> ValueLines(lines, key, metric)] :
                          \A a, b \in DOMAIN s : (a # b) => (s[a] # s[b]),
                      LAMBDA x, y : x < y)
    IN  [k \in DOMAIN at |-> lines[at[k]].value]

\* a dataset has an entry once its name has been read
Named(lines, key) == \E i \in DOMAIN lines : lines[i].kind = "name" /\ lines[i].key = key

\* the values reported for key k of SortedKeys are those of one snapshot, the
\* one with the highest Rank-1
FromBestSnapshot(k) ==
    LET key == SortedKeys[k]
        out == runner.values[k]
        top1 == ValuesIn(runner.lines, key, "Rank-1")
        best == out[4] + 1
    IN  /\ best \in DOMAIN top1
        /\ \A j \in DOMAIN top1 : top1[j] <= top1[best]
        /\ best \in DOMAIN ValuesIn(runner.lines, key, "mAP")
        /\ best \in DOMAIN ValuesIn(runner.lines, key, "Rank-5")
        /\ out[1] = ValuesIn(runner.lines, key, "mAP")[best]
        /\ out[2] = top1[best]
        /\ out[3] = ValuesIn(runner.lines, key, "Rank-5")[best]

\* C30: for every sequence of lines, also one whose first metric line comes
\* before any dataset-name line, the parse completes, every mAP / Rank-1 /
\* Rank-5 value is in the entry of the dataset named most recently before it,
\* and the report holds for every dataset the mAP, Rank-1, Rank-5 and index
\* of the snapshot with the highest Rank-1, or -1;-1;-1;-1; for a dataset
\* without an entry.
C30_ParsesEveryFileAndReportsBest ==
    Ran =>
        /\ runner.state = "done"
        /\ \A key \in Range(SortedKeys), metric \in Metrics :
             ValueLines(runner.lines, key, metric) # {} =>
                /\ key \in DOMAIN runner.saver
                /\ metric \in DOMAIN runner.saver[key]
                /\ runner.saver[key][metric] = ValuesIn(runner.lines, key, metric)
        /\ Len(runner.values) = Len(SortedKeys)
        /\ \A k \in DOMAIN SortedKeys :
             IF Named(runner.lines, SortedKeys[k]) THEN FromBestSnapshot(k)
             ELSE runner.values[k] = <<0 - 1, 0 - 1, 0 - 1, 0 - 1>>

\* a file as the training runs write it: no metric line before the first
\* dataset name, and after every dataset name the same number (at least one)
\* of values of each metric
Complete(lines) ==
    /\ \A i \in DOMAIN lines :
         lines[i].kind = "metric" => LastNameBefore(lines, i) # "unbound"
    /\ \A key \in Range(SortedKeys) :
         Named(lines, key) =>
            /\ ValueLines(lines, key, "Rank-1") # {}
            /\ \A metric \in Metrics :
                 Cardinality(ValueLines(lines, key, metric))
                    = Cardinality(ValueLines(lines, key, "Rank-1"))

\* the same for such files only
C30_ParsesCompleteFilesAndReportsBest ==
    Complete(runner.lines) => C30_ParsesEveryFileAndReportsBest

\* a complete file with one dataset and its three metrics
C30_WitnessComplete ==
    /\ Ran /\ runner.state = "done" /\ Complete(runner.lines)
    /\ \E k \in DOMAIN SortedKeys : runner.values[k][4] = 0 /\ runner.values[k][2] = 2
====
